---- MODULE Spec2Model ----
(***************************************************************************)
(* The expression node of the geometry nodes: the parser that turns an     *)
(* expression string into infix tokens (ExpressionParser), the compiler    *)
(* that turns them into a typed postfix program (ExpressionProgram::       *)
(* create_postfix_program) and the stack interpreter that evaluates the    *)
(* program for one row (ExpressionProgram::execute_program).               *)
(*                                                                         *)
(* An expression is a sequence of one-character strings.  Positions are    *)
(* kept 0-based as in the source: input.at(p) is input[p + 1] here.        *)
(***************************************************************************)
EXTENDS Integers, Sequences, FiniteSets, TLC

(***************************************************************************)
(* Token::TokenType, Token::eValueType and the static tables               *)
(***************************************************************************)
TI(t, nm, p, r, n, a1, a2, a3) ==
  [type |-> t, name |-> nm, precedence |-> p, result_type |-> r, num_args |-> n,
   arg1_type |-> a1, arg2_type |-> a2, arg3_type |-> a3]

FL(nm, t) == [name |-> nm, type |-> t]

OV(b, alts) == [base |-> b, alts |-> alts]

token_info_table ==
  << TI("NONE", "NONE", 0, "NONE", 0, "NONE", "NONE", "NONE"),
     TI("CONSTANT_FLOAT", "CONST_FLOAT", 0, "FLOAT", 0, "NONE", "NONE", "NONE"),
     TI("CONSTANT_INT", "CONSTANT_INT", 0, "INT", 0, "NONE", "NONE", "NONE"),
     TI("VARIABLE_FLOAT", "VARIABLE_FLOAT", 0, "FLOAT", 0, "NONE", "NONE", "NONE"),
     TI("VARIABLE_INT", "VARIABLE_INT", 0, "INT", 0, "NONE", "NONE", "NONE"),
     TI("VARIABLE_BOOL", "VARIABLE_BOOL", 0, "INT", 0, "NONE", "NONE", "NONE"),
     TI("VARIABLE_VEC", "VARIABLE_VECTOR", 0, "VEC", 0, "NONE", "NONE", "NONE"),
     TI("LEFT_PAREN", "LEFT_PAREN", 0, "NONE", 0, "NONE", "NONE", "NONE"),
     TI("RIGHT_PAREN", "RIGHT_PAREN", 0, "NONE", 0, "NONE", "NONE", "NONE"),
     TI("COMMA", "COMMA", 0, "NONE", 0, "NONE", "NONE", "NONE"),
     TI("OPERATOR_UNARY_MINUS", "OP_UNARY_MINUS_F", 7, "FLOAT", 1, "FLOAT", "NONE", "NONE"),
     TI("OPERATOR_UNARY_MINUS_INT", "OP_UNARY_MINUS_I", 7, "INT", 1, "INT", "NONE", "NONE"),
     TI("OPERATOR_UNARY_MINUS_VEC", "OP_UNARY_MINUS_V", 7, "VEC", 1, "VEC", "NONE", "NONE"),
     TI("OPERATOR_UNARY_NOT", "OP_UNARY_NOT", 7, "INT", 1, "INT", "NONE", "NONE"),
     TI("OPERATOR_PLUS", "OP_PLUS_F", 1, "FLOAT", 2, "FLOAT", "FLOAT", "NONE"),
     TI("OPERATOR_PLUS_INT", "OP_PLUS_I", 1, "INT", 2, "INT", "INT", "NONE"),
     TI("OPERATOR_PLUS_VEC", "OP_PLUS_V", 1, "VEC", 2, "VEC", "VEC", "NONE"),
     TI("OPERATOR_MINUS", "OP_MINUS_F", 1, "FLOAT", 2, "FLOAT", "FLOAT", "NONE"),
     TI("OPERATOR_MINUS_INT", "OP_MINUS_I", 1, "INT", 2, "INT", "INT", "NONE"),
     TI("OPERATOR_MINUS_VEC", "OP_MINUS_V", 1, "VEC", 2, "VEC", "VEC", "NONE"),
     TI("OPERATOR_MULTIPLY", "OP_MULTIPLY_F", 2, "FLOAT", 2, "FLOAT", "FLOAT", "NONE"),
     TI("OPERATOR_MULTIPLY_INT", "OP_MULTIPLY_I", 2, "INT", 2, "INT", "INT", "NONE"),
     TI("OPERATOR_MULTIPLY_FLOAT_VEC", "OP_MULTIPLY_FV", 2, "VEC", 2, "FLOAT", "VEC", "NONE"),
     TI("OPERATOR_MULTIPLY_VEC_FLOAT", "OP_MULTIPLY_VF", 2, "VEC", 2, "VEC", "FLOAT", "NONE"),
     TI("OPERATOR_DIVIDE", "OP_DIVIDE_F", 2, "FLOAT", 2, "FLOAT", "FLOAT", "NONE"),
     TI("OPERATOR_DIVIDE_INT", "OP_DIVIDE_I", 2, "INT", 2, "INT", "INT", "NONE"),
     TI("OPERATOR_DIVIDE_VEC_FLOAT", "OP_DIVIDE_VF", 2, "VEC", 2, "VEC", "FLOAT", "NONE"),
     TI("OPERATOR_POWER", "OP_POWER_F", 8, "FLOAT", 2, "FLOAT", "FLOAT", "NONE"),
     TI("OPERATOR_POWER_INT", "OP_POWER_I", 8, "INT", 2, "INT", "INT", "NONE"),
     TI("OPERATOR_MODULO", "OP_MODULO_F", 2, "FLOAT", 2, "FLOAT", "FLOAT", "NONE"),
     TI("OPERATOR_MODULO_INT", "OP_MODULO_I", 2, "INT", 2, "INT", "INT", "NONE"),
     TI("OPERATOR_EQUAL", "OP_EQUAL_F", -1, "INT", 2, "FLOAT", "FLOAT", "NONE"),
     TI("OPERATOR_EQUAL_INT", "OP_EQUAL_I", -1, "INT", 2, "INT", "INT", "NONE"),
     TI("OPERATOR_EQUAL_VEC", "OP_EQUAL_VEC", -1, "INT", 2, "VEC", "VEC", "NONE"),
     TI("OPERATOR_NOT_EQUAL", "OP_NOT_EQUAL_F", -1, "INT", 2, "FLOAT", "FLOAT", "NONE"),
     TI("OPERATOR_NOT_EQUAL_INT", "OP_NOT_EQUAL_I", -1, "INT", 2, "INT", "INT", "NONE"),
     TI("OPERATOR_NOT_EQUAL_VEC", "OP_NOT_EQUAL_VEC", -1, "INT", 2, "VEC", "VEC", "NONE"),
     TI("OPERATOR_GREATER", "OP_GREATER", 0, "INT", 2, "FLOAT", "FLOAT", "NONE"),
     TI("OPERATOR_GREATER_INT", "OP_GREATER_I", 0, "INT", 2, "INT", "INT", "NONE"),
     TI("OPERATOR_GREATER_EQUAL", "OP_GREATER_EQUAL", 0, "INT", 2, "FLOAT", "FLOAT", "NONE"),
     TI("OPERATOR_GREATER_EQUAL_INT", "OP_GREATER_EQUAL_I", 0, "INT", 2, "INT", "INT", "NONE"),
     TI("OPERATOR_LESS", "OP_LESS", 0, "INT", 2, "FLOAT", "FLOAT", "NONE"),
     TI("OPERATOR_LESS_INT", "OP_LESS_I", 0, "INT", 2, "INT", "INT", "NONE"),
     TI("OPERATOR_LESS_EQUAL", "OP_LESS_EQUAL", 0, "INT", 2, "FLOAT", "FLOAT", "NONE"),
     TI("OPERATOR_LESS_EQUAL_INT", "OP_LESS_EQUAL_INT", 0, "INT", 2, "INT", "INT", "NONE"),
     TI("OPERATOR_AND", "OP_AND", -2, "INT", 2, "INT", "INT", "NONE"),
     TI("OPERATOR_OR", "OP_OR", -3, "INT", 2, "INT", "INT", "NONE"),
     TI("OPERATOR_GET_MEMBER_VEC", "OP_READ_MEMBER_V", 9, "FLOAT", 1, "VEC", "NONE", "NONE"),
     TI("FUNCTION_SQUARE_ROOT", "FN_SQUARE_ROOT", 9, "FLOAT", 1, "FLOAT", "NONE", "NONE"),
     TI("FUNCTION_SINE", "FN_SIN", 9, "FLOAT", 1, "FLOAT", "NONE", "NONE"),
     TI("FUNCTION_COSINE", "FN_COS", 9, "FLOAT", 1, "FLOAT", "NONE", "NONE"),
     TI("FUNCTION_TANGENT", "FN_TAN", 9, "FLOAT", 1, "FLOAT", "NONE", "NONE"),
     TI("FUNCTION_ASIN", "FN_ASIN", 9, "FLOAT", 1, "FLOAT", "NONE", "NONE"),
     TI("FUNCTION_ACOS", "FN_ACOS", 9, "FLOAT", 1, "FLOAT", "NONE", "NONE"),
     TI("FUNCTION_ATAN", "FN_ATAN", 9, "FLOAT", 1, "FLOAT", "NONE", "NONE"),
     TI("FUNCTION_ATAN2", "FN_ATAN2", 9, "FLOAT", 2, "FLOAT", "FLOAT", "NONE"),
     TI("FUNCTION_MAX", "FN_MAX_F", 9, "FLOAT", 2, "FLOAT", "FLOAT", "NONE"),
     TI("FUNCTION_MAX_INT", "FN_MAX_I", 9, "INT", 2, "INT", "INT", "NONE"),
     TI("FUNCTION_MIN", "FN_MIN_F", 9, "FLOAT", 2, "FLOAT", "FLOAT", "NONE"),
     TI("FUNCTION_MIN_INT", "FN_MIN_I", 9, "INT", 2, "INT", "INT", "NONE"),
     TI("FUNCTION_ABS", "FN_ABS", 9, "FLOAT", 1, "FLOAT", "NONE", "NONE"),
     TI("FUNCTION_ABS_INT", "FN_ABS_INT", 9, "INT", 1, "INT", "NONE", "NONE"),
     TI("FUNCTION_SIGN", "FN_SIGN", 9, "INT", 1, "FLOAT", "NONE", "NONE"),
     TI("FUNCTION_SIGN_INT", "FN_SIGN_INT", 9, "INT", 1, "INT", "NONE", "NONE"),
     TI("FUNCTION_TO_RADIANS", "FN_TO_RADIANS", 9, "FLOAT", 1, "FLOAT", "NONE", "NONE"),
     TI("FUNCTION_TO_DEGREES", "FN_TO_DEGREES", 9, "FLOAT", 1, "FLOAT", "NONE", "NONE"),
     TI("FUNCTION_VECTOR", "FN_VECTOR", 9, "VEC", 3, "FLOAT", "FLOAT", "FLOAT"),
     TI("FUNCTION_NOT", "FUNCTION_NOT", 9, "INT", 1, "INT", "NONE", "NONE"),
     TI("FUNCTION_LOG", "FUNCTION_LOG", 9, "FLOAT", 2, "FLOAT", "FLOAT", "NONE"),
     TI("FUNCTION_LN", "FUNCTION_LN", 9, "FLOAT", 1, "FLOAT", "NONE", "NONE"),
     TI("FUNCTION_POW", "FUNCTION_POW", 9, "FLOAT", 2, "FLOAT", "FLOAT", "NONE"),
     TI("FUNCTION_EXP", "FUNCTION_EXP", 9, "FLOAT", 1, "FLOAT", "NONE", "NONE"),
     TI("FUNCTION_IF", "FUNCTION_IF", 9, "FLOAT", 3, "INT", "FLOAT", "FLOAT"),
     TI("FUNCTION_IF_INT", "FUNCTION_IF_I", 9, "INT", 3, "INT", "INT", "INT"),
     TI("FUNCTION_IF_VEC", "FUNCTION_IF_VEC", 9, "VEC", 3, "INT", "VEC", "VEC"),
     TI("FUNCTION_CEIL", "FUNCTION_CEIL", 9, "FLOAT", 1, "FLOAT", "NONE", "NONE"),
     TI("FUNCTION_FLOOR", "FUNCTION_FLOOR", 9, "FLOAT", 1, "FLOAT", "NONE", "NONE"),
     TI("FUNCTION_FRAC", "FUNCTION_FRAC", 9, "FLOAT", 1, "FLOAT", "NONE", "NONE"),
     TI("FUNCTION_ROUND", "FUNCTION_ROUND", 9, "FLOAT", 1, "FLOAT", "NONE", "NONE"),
     TI("FUNCTION_TRUNCATE", "FUNCTION_TRUNCATE", 9, "FLOAT", 1, "FLOAT", "NONE", "NONE"),
     TI("FUNCTION_COMPARE", "FUNCTION_COMPARE", 9, "INT", 3, "FLOAT", "FLOAT", "FLOAT"),
     TI("FUNCTION_COMPARE_VEC", "FUNCTION_COMPARE_VEC", 9, "INT", 3, "VEC", "VEC", "FLOAT"),
     TI("FUNCTION_DOT", "FUNCTION_DOT_PRODUCT", 9, "FLOAT", 2, "VEC", "VEC", "NONE"),
     TI("FUNCTION_CROSS", "FUNCTION_CROSS_PRODUCT", 9, "VEC", 2, "VEC", "VEC", "NONE"),
     TI("FUNCTION_NORMALIZE", "FUNCTION_NORMALIZE", 9, "VEC", 1, "VEC", "NONE", "NONE"),
     TI("FUNCTION_LENGTH", "FUNCTION_LENGTH", 9, "FLOAT", 1, "VEC", "NONE", "NONE"),
     TI("FUNCTION_LENGTH2", "FUNCTION_LENGTH_SQUARED", 9, "FLOAT", 1, "VEC", "NONE", "NONE"),
     TI("CONVERT_INT_FLOAT", "FN_CONV_I2F", 9, "FLOAT", 1, "INT", "NONE", "NONE"),
     TI("CONVERT_FLOAT_INT", "FN_CONV_F2I", 9, "INT", 1, "FLOAT", "NONE", "NONE") >>

TokenTypes == {token_info_table[k].type : k \in 1..Len(token_info_table)}

\* the row of table that holds type tt: (int)tt + 1, the rows being in the order
\* of the enumeration
row_of(table, tt) == CHOOSE k \in 1..Len(table) : table[k].type = tt

\* the position of a token type in the enumeration (NONE is 0)
ordinal(tt) == row_of(token_info_table, tt) - 1

lookup(table, tt) == table[row_of(table, tt)]

token_info(tt) == lookup(token_info_table, tt)

\* the aliases of the enumeration that the range tests use
FIRST_CONSTANT == "CONSTANT_FLOAT"
FIRST_VARIABLE == "VARIABLE_FLOAT"
FIRST_SPECIAL == "LEFT_PAREN"
FIRST_OPERATOR == "OPERATOR_UNARY_MINUS"
FIRST_BOOLEAN_OPERATOR == "OPERATOR_AND"
FIRST_POSTFIX_OPERATOR == "OPERATOR_GET_MEMBER_VEC"
FIRST_FUNCTION == "FUNCTION_SQUARE_ROOT"
NUM == Len(token_info_table)

Token(t, param) == [type |-> t, value |-> param]

\* tt >= first && tt < limit
between(table, tt, first, limit) ==
  row_of(table, tt) >= row_of(table, first) /\ row_of(table, tt) < row_of(table, limit)

\* tt >= first && tt < TokenType::NUM
from(table, tt, first) ==
  row_of(table, tt) >= row_of(table, first) /\ row_of(table, tt) - 1 < Len(table)

is_operand(t) == between(token_info_table, t.type, FIRST_CONSTANT, FIRST_SPECIAL)
is_constant(t) == between(token_info_table, t.type, FIRST_CONSTANT, FIRST_VARIABLE)
is_operator(t) == between(token_info_table, t.type, FIRST_OPERATOR, FIRST_FUNCTION)
is_operator_or_function(t) == from(token_info_table, t.type, FIRST_OPERATOR)
is_postfix_operator(t) == from(token_info_table, t.type, FIRST_POSTFIX_OPERATOR)
\* precedence with OPERATOR_MULTIPLY given the precedence of OPERATOR_PLUS
precedence_flat(t) ==
  token_info(IF t.type = "OPERATOR_MULTIPLY" THEN "OPERATOR_PLUS" ELSE t.type).precedence
\* precedence with && and || given the precedence of OPERATOR_PLUS
precedence_boolean_as_plus(t) ==
  token_info(IF t.type = "OPERATOR_AND" \/ t.type = "OPERATOR_OR" THEN "OPERATOR_PLUS"
             ELSE t.type).precedence
precedence(t) == token_info(t.type).precedence
num_args(t) == token_info(t.type).num_args
result_type(tt) == token_info(tt).result_type
is_boolean_op(tt) ==
  between(token_info_table, tt, FIRST_BOOLEAN_OPERATOR, FIRST_POSTFIX_OPERATOR)

func_table ==
  << FL(<<"s","i","n">>, "FUNCTION_SINE"),
     FL(<<"s","i","n","e">>, "FUNCTION_SINE"),
     FL(<<"c","o","s">>, "FUNCTION_COSINE"),
     FL(<<"c","o","s","i","n","e">>, "FUNCTION_COSINE"),
     FL(<<"t","a","n">>, "FUNCTION_TANGENT"),
     FL(<<"t","a","n","g","e","n","t">>, "FUNCTION_TANGENT"),
     FL(<<"a","s","i","n">>, "FUNCTION_ASIN"),
     FL(<<"a","r","c","s","i","n","e">>, "FUNCTION_ASIN"),
     FL(<<"a","c","o","s">>, "FUNCTION_ACOS"),
     FL(<<"a","r","c","c","o","s","i","n","e">>, "FUNCTION_ACOS"),
     FL(<<"a","t","a","n">>, "FUNCTION_ATAN"),
     FL(<<"a","r","c","t","a","n","g","e","n","t">>, "FUNCTION_ATAN"),
     FL(<<"a","t","a","n","2">>, "FUNCTION_ATAN2"),
     FL(<<"m","a","x">>, "FUNCTION_MAX"),
     FL(<<"m","a","x","i","m","u","m">>, "FUNCTION_MAX"),
     FL(<<"m","i","n">>, "FUNCTION_MIN"),
     FL(<<"m","i","n","i","m","u","m">>, "FUNCTION_MIN"),
     FL(<<"s","q","r","t">>, "FUNCTION_SQUARE_ROOT"),
     FL(<<"s","q","u","a","r","e","r","o","o","t">>, "FUNCTION_SQUARE_ROOT"),
     FL(<<"s","q","u","a","r","e","_","r","o","o","t">>, "FUNCTION_SQUARE_ROOT"),
     FL(<<"a","b","s">>, "FUNCTION_ABS"),
     FL(<<"a","b","s","o","l","u","t","e">>, "FUNCTION_ABS"),
     FL(<<"s","i","g","n">>, "FUNCTION_SIGN"),
     FL(<<"t","o","r","a","d","i","a","n","s">>, "FUNCTION_TO_RADIANS"),
     FL(<<"t","o","_","r","a","d","i","a","n","s">>, "FUNCTION_TO_RADIANS"),
     FL(<<"t","o","d","e","g","r","e","e","s">>, "FUNCTION_TO_DEGREES"),
     FL(<<"t","o","_","d","e","g","r","e","e","s">>, "FUNCTION_TO_DEGREES"),
     FL(<<"v","e","c">>, "FUNCTION_VECTOR"),
     FL(<<"v","e","c","t","o","r">>, "FUNCTION_VECTOR"),
     FL(<<"n","o","t">>, "FUNCTION_NOT"),
     FL(<<"l","o","g">>, "FUNCTION_LOG"),
     FL(<<"l","o","g","a","r","i","t","h","m">>, "FUNCTION_LOG"),
     FL(<<"l","n">>, "FUNCTION_LN"),
     FL(<<"p","o","w">>, "FUNCTION_POW"),
     FL(<<"p","o","w","e","r">>, "FUNCTION_POW"),
     FL(<<"e","x","p">>, "FUNCTION_EXP"),
     FL(<<"e","x","p","o","n","e","n","t","i","a","l">>, "FUNCTION_EXP"),
     FL(<<"i","f">>, "FUNCTION_IF"),
     FL(<<"c","e","i","l">>, "FUNCTION_CEIL"),
     FL(<<"f","l","o","o","r">>, "FUNCTION_FLOOR"),
     FL(<<"f","r","a","c">>, "FUNCTION_FRAC"),
     FL(<<"f","r","a","c","t","i","o","n">>, "FUNCTION_FRAC"),
     FL(<<"r","o","u","n","d">>, "FUNCTION_ROUND"),
     FL(<<"t","r","u","n","c","a","t","e">>, "FUNCTION_TRUNCATE"),
     FL(<<"t","r","u","n","c">>, "FUNCTION_TRUNCATE"),
     FL(<<"c","o","m","p","a","r","e">>, "FUNCTION_COMPARE"),
     FL(<<"d","o","t">>, "FUNCTION_DOT"),
     FL(<<"c","r","o","s","s">>, "FUNCTION_CROSS"),
     FL(<<"n","o","r","m","a","l","i","z","e">>, "FUNCTION_NORMALIZE"),
     FL(<<"l","e","n","g","t","h">>, "FUNCTION_LENGTH"),
     FL(<<"l","e","n","g","t","h","2">>, "FUNCTION_LENGTH2") >>

overloads ==
  << OV("OPERATOR_UNARY_MINUS", <<"OPERATOR_UNARY_MINUS_INT", "OPERATOR_UNARY_MINUS_VEC">>),
     OV("FUNCTION_ABS", <<"FUNCTION_ABS_INT">>),
     OV("FUNCTION_SIGN", <<"FUNCTION_SIGN_INT">>),
     OV("OPERATOR_PLUS", <<"OPERATOR_PLUS_INT", "OPERATOR_PLUS_VEC">>),
     OV("OPERATOR_MINUS", <<"OPERATOR_MINUS_INT", "OPERATOR_MINUS_VEC">>),
     OV("OPERATOR_MULTIPLY", <<"OPERATOR_MULTIPLY_INT", "OPERATOR_MULTIPLY_VEC_FLOAT", "OPERATOR_MULTIPLY_FLOAT_VEC">>),
     OV("OPERATOR_DIVIDE", <<"OPERATOR_DIVIDE_INT", "OPERATOR_DIVIDE_VEC_FLOAT">>),
     OV("OPERATOR_POWER", <<"OPERATOR_POWER_INT">>),
     OV("OPERATOR_MODULO", <<"OPERATOR_MODULO_INT">>),
     OV("OPERATOR_EQUAL", <<"OPERATOR_EQUAL_INT", "OPERATOR_EQUAL_VEC">>),
     OV("OPERATOR_NOT_EQUAL", <<"OPERATOR_NOT_EQUAL_INT", "OPERATOR_NOT_EQUAL_VEC">>),
     OV("OPERATOR_GREATER", <<"OPERATOR_GREATER_INT">>),
     OV("OPERATOR_GREATER_EQUAL", <<"OPERATOR_GREATER_EQUAL_INT">>),
     OV("OPERATOR_LESS", <<"OPERATOR_LESS_INT">>),
     OV("OPERATOR_LESS_EQUAL", <<"OPERATOR_LESS_EQUAL_INT">>),
     OV("FUNCTION_MAX", <<"FUNCTION_MAX_INT">>),
     OV("FUNCTION_MIN", <<"FUNCTION_MIN_INT">>),
     OV("FUNCTION_IF", <<"FUNCTION_IF_INT", "FUNCTION_IF_VEC">>),
     OV("FUNCTION_COMPARE", <<"FUNCTION_COMPARE_VEC">>) >>

max_overloads == 5

(***************************************************************************)
(* Characters (<cctype>, C locale)                                         *)
(***************************************************************************)
digit_chars == <<"0", "1", "2", "3", "4", "5", "6", "7", "8", "9">>
upper_chars == <<"A", "B", "C", "D", "E", "F", "G", "H", "I", "J", "K", "L", "M",
                 "N", "O", "P", "Q", "R", "S", "T", "U", "V", "W", "X", "Y", "Z">>
lower_chars == <<"a", "b", "c", "d", "e", "f", "g", "h", "i", "j", "k", "l", "m",
                 "n", "o", "p", "q", "r", "s", "t", "u", "v", "w", "x", "y", "z">>

isdigit(c) == \E k \in 1..Len(digit_chars) : digit_chars[k] = c
isupper(c) == \E k \in 1..Len(upper_chars) : upper_chars[k] = c
isalpha(c) == isupper(c) \/ \E k \in 1..Len(lower_chars) : lower_chars[k] = c
isspace(c) == c \in {" ", "\t", "\n", "\r"}
tolower(c) == IF isupper(c)
              THEN lower_chars[CHOOSE k \in 1..Len(upper_chars) : upper_chars[k] = c]
              ELSE c
digit_value(c) == (CHOOSE k \in 1..Len(digit_chars) : digit_chars[k] = c) - 1

\* std::string::substr(pos, n) on a sequence of characters
substr(s, pos, n) == SubSeq(s, pos + 1, pos + n)

(***************************************************************************)
(* 32-bit words.  A token's value and a cell of the run-time stack hold    *)
(* one 32-bit word that is read as an int or, reinterpreted, as an         *)
(* IEEE-754 single.  Floats with an integer value below 2^24 are carried   *)
(* exactly.                                                                *)
(***************************************************************************)
Pow2(n) == 2 ^ n

RECURSIVE Log2(_)
Log2(a) == IF a < 2 THEN 0 ELSE 1 + Log2(a \div 2)

\* the word of (float)n, for an integer n with |n| < 2^24
FloatBits(n) ==
  IF n = 0 THEN 0
  ELSE LET a == IF n < 0 THEN -n ELSE n
           e == Log2(a)
           u == (e + 127) * Pow2(23) + (a - Pow2(e)) * Pow2(23 - e)
       IN IF n > 0 THEN u ELSE (u - Pow2(30)) - Pow2(30)

FloatMagnitude(w) == IF w < 0 THEN (w + Pow2(30)) + Pow2(30) ELSE w
FloatExponent(w) == (FloatMagnitude(w) \div Pow2(23)) - 127
FloatMantissa(w) == FloatMagnitude(w) % Pow2(23)

\* the float in word w has an integer value (that the model carries exactly)
IsIntFloat(w) ==
  \/ w = 0
  \/ /\ FloatExponent(w) \in 0..23
     /\ FloatMantissa(w) % Pow2(23 - FloatExponent(w)) = 0

\* the integer value of such a float
FloatInt(w) ==
  IF w = 0 THEN 0
  ELSE LET v == (Pow2(23) + FloatMantissa(w)) \div Pow2(23 - FloatExponent(w))
       IN IF w < 0 THEN -v ELSE v

\* words of floats that are not small integers: infinity and a NaN
InfBits == 255 * Pow2(23)
NaNBits == 255 * Pow2(23) + Pow2(22)
\* stands for the word of any value the model does not follow (a float with a
\* fraction or beyond 2^24, an int beyond 2^30)
Untracked == NaNBits + 1
\* (float)M_PI and (float)(M_PI * 2)
PiBits == 1078530011
TauBits == 1086918619

INT_MIN == -2147483647 - 1

(***************************************************************************)
(* std::from_chars                                                         *)
(***************************************************************************)
RECURSIVE ScanDigits(_, _)
ScanDigits(s, p) ==
  IF p < Len(s) /\ isdigit(s[p + 1]) THEN ScanDigits(s, p + 1) ELSE p

\* the digits of s in [p, q) as a negative number; 1 when it is below INT_MIN
RECURSIVE AccNeg(_, _, _, _)
AccNeg(s, p, q, acc) ==
  IF p = q THEN acc
  ELSE LET d == digit_value(s[p + 1])
       IN IF acc < -214748364 \/ (acc = -214748364 /\ d > 8)
          THEN 1
          ELSE AccNeg(s, p + 1, q, acc * 10 - d)

\* the digits of s in [p, q) are all "0"
RECURSIVE AllZero(_, _, _)
AllZero(s, p, q) == p >= q \/ (s[p + 1] = "0" /\ AllZero(s, p + 1, q))

\* s holds the word w (any case) at position p
MatchWord(s, p, w) ==
  /\ p + Len(w) <= Len(s)
  /\ \A k \in 1..Len(w) : tolower(s[p + k]) = w[k]

\* from_chars(first, last, int&): [ok: ec == errc{}, ptr, x]
from_chars_int(s, start) ==
  LET neg == start < Len(s) /\ s[start + 1] = "-"
      q0 == IF neg THEN start + 1 ELSE start
      \* the digits are [q0, q1) and their value is -n
      value(q1, n) ==
        IF q1 = q0 THEN [ok |-> FALSE, ptr |-> start, x |-> 0]
        ELSE IF n = 1 \/ (~neg /\ n = INT_MIN) THEN [ok |-> FALSE, ptr |-> q1, x |-> 0]
        ELSE [ok |-> TRUE, ptr |-> q1, x |-> IF neg THEN n ELSE -n]
      digits(q1) == value(q1, AccNeg(s, q0, q1, 0))
  IN digits(ScanDigits(s, q0))

\* from_chars(first, last, float&): [ok: ec == errc{}, ptr, f: the word of the float]
from_chars_float(s, start) ==
  LET neg == start < Len(s) /\ s[start + 1] = "-"
      q0 == IF neg THEN start + 1 ELSE start
      inf == IF neg THEN (InfBits - Pow2(30)) - Pow2(30) ELSE InfBits
      \* the integer digits are [q0, q1), the fraction digits end at q2 when
      \* dot, the exponent digits are [q3, q4) when hase
      value(q1, dot, q2, hase, q3, q4) ==
        LET nfrac == IF dot THEN q2 - (q1 + 1) ELSE 0
            exp == hase /\ q4 > q3
            ptr == IF exp THEN q4 ELSE q2
            zero == AllZero(s, q0, q1) /\ (~dot \/ AllZero(s, q1 + 1, q2))
            expneg == exp /\ s[q3] = "-"
            expval == IF ~exp THEN 0
                      ELSE IF q4 - q3 > 3 THEN 1000
                      ELSE -AccNeg(s, q3, q4, 0)
            range == /\ ~zero
                     /\ IF expneg THEN expval > 44 + (q1 - q0)
                        ELSE (q1 - q0) + expval > 38
            exact == /\ q1 - q0 <= 7
                     /\ ~dot \/ AllZero(s, q1 + 1, q2)
                     /\ expval = 0
            mag == IF zero THEN 0
                   ELSE IF exact THEN FloatBits(-AccNeg(s, q0, q1, 0))
                   ELSE Untracked
        IN IF MatchWord(s, q0, <<"i", "n", "f", "i", "n", "i", "t", "y">>)
           THEN [ok |-> TRUE, ptr |-> q0 + 8, f |-> inf]
           ELSE IF MatchWord(s, q0, <<"i", "n", "f">>)
           THEN [ok |-> TRUE, ptr |-> q0 + 3, f |-> inf]
           ELSE IF MatchWord(s, q0, <<"n", "a", "n">>)
           THEN [ok |-> TRUE, ptr |-> q0 + 3, f |-> NaNBits]
           ELSE IF (q1 - q0) + nfrac = 0 THEN [ok |-> FALSE, ptr |-> start, f |-> 0]
           ELSE IF range THEN [ok |-> FALSE, ptr |-> ptr, f |-> 0]
           ELSE [ok |-> TRUE, ptr |-> ptr,
                 f |-> IF neg /\ mag # Untracked THEN (mag - Pow2(30)) - Pow2(30) ELSE mag]
      exponent(q1, dot, q2, hase) ==
        LET q3 == IF hase /\ q2 + 1 < Len(s) /\ s[q2 + 2] \in {"+", "-"}
                  THEN q2 + 2 ELSE q2 + 1
        IN value(q1, dot, q2, hase, q3, IF hase THEN ScanDigits(s, q3) ELSE q2)
      fraction(q1, dot, q2) ==
        exponent(q1, dot, q2, q2 < Len(s) /\ tolower(s[q2 + 1]) = "e")
      digits(q1) ==
        LET dot == q1 < Len(s) /\ s[q1 + 1] = "."
        IN fraction(q1, dot, IF dot THEN ScanDigits(s, q1 + 1) ELSE q1)
  IN digits(ScanDigits(s, q0))
(***************************************************************************)
(* ExpressionParser.  The state of a parse is the record                   *)
(*   [read_pos, output, error_msg_, error_pos_, writes, ret, stack]        *)
(* read_pos and output are the reference parameters every parse function   *)
(* receives; writes lists every assignment made to error_msg_ / error_pos_ *)
(* during the parse; ret is the value the last call returned.  stack is    *)
(* the call stack of the mutually recursive functions parse_expression,    *)
(* parse_operand_or_unary, parse_operand and parse_function: one frame     *)
(*   [fn, at, close, comma, start, left, nargs]                            *)
(* per active call, with fn the function, at the position in it, close and *)
(* comma the terminate_on_close_parens / terminate_on_comma parameters,    *)
(* start the local paren_start / start_read_pos, left the local            *)
(* expected_args and nargs the local num_args.  The functions that call    *)
(* none of these four are operators from a parse state to the parse state  *)
(* at their return.                                                        *)
(*                                                                         *)
(* parse_operand_or_unary (after the operand of a unary operator) and      *)
(* parse_function (after the closing parenthesis) flow off their end       *)
(* without a return statement: the value their caller reads is             *)
(* indeterminate, and the step takes it as its argument g.                 *)
(* error_msg_ == "" is read as "no message recorded": the "" literals of   *)
(* the translation unit are one object.                                    *)
(***************************************************************************)
Ret(p, v) == [p EXCEPT !.ret = v]

AtPos(p, pos) == [p EXCEPT !.read_pos = pos]

add_token(p, t, param) == [p EXCEPT !.output = Append(@, Token(t, param))]

Write(how, p, msg, position) ==
  [how |-> how, old_msg |-> p.error_msg_, old_pos |-> p.error_pos_,
   msg |-> msg, pos |-> position]

set_error_if_none_overwrite(p, msg, position) ==
  [p EXCEPT !.error_msg_ = msg, !.error_pos_ = position,
            !.writes = Append(@, Write("set_error_if_none", p, msg, position))]

set_error_if_none(p, msg, position) ==
  IF p.error_msg_ = ""
  THEN [p EXCEPT !.error_msg_ = msg, !.error_pos_ = position,
                 !.writes = Append(@, Write("set_error_if_none", p, msg, position))]
  ELSE p

\* error_msg_ = msg; error_pos_ = position;  (the assignments in parse_operand)
assign_error(p, msg, position) ==
  [p EXCEPT !.error_msg_ = msg, !.error_pos_ = position,
            !.writes = Append(@, Write("assign", p, msg, position))]

RECURSIVE skip_white_space(_, _)
skip_white_space(input, read_pos) ==
  IF read_pos < Len(input) /\ isspace(input[read_pos + 1])
  THEN skip_white_space(input, read_pos + 1)
  ELSE read_pos

\* input.find(ch, pos); -1 when there is none
RECURSIVE find(_, _, _)
find(input, ch, pos) ==
  IF pos >= Len(input) THEN -1
  ELSE IF input[pos + 1] = ch THEN pos
  ELSE find(input, ch, pos + 1)

RECURSIVE read_name_end(_, _)
read_name_end(input, temp_read_pos) ==
  IF /\ temp_read_pos < Len(input)
     /\ LET ch == input[temp_read_pos + 1] IN ch = "_" \/ isalpha(ch) \/ isdigit(ch)
  THEN read_name_end(input, temp_read_pos + 1)
  ELSE temp_read_pos

read_variable_name_size(input, read_pos) ==
  LET temp_read_pos == skip_white_space(input, read_pos)
  IN IF temp_read_pos = Len(input) THEN 0
     ELSE LET first == input[temp_read_pos + 1]
          IN IF first # "_" /\ ~isalpha(first) THEN 0
             ELSE read_name_end(input, temp_read_pos + 1) - read_pos

\* the type of the first entry of table that is named func_name
function_named(table, func_name) ==
  IF \A k \in 1..Len(table) : table[k].name # func_name THEN "NONE"
  ELSE table[CHOOSE k \in 1..Len(table) :
               /\ table[k].name = func_name
               /\ \A j \in 1..(k - 1) : table[j].name # func_name].type

lower_case(raw) == [k \in 1..Len(raw) |-> tolower(raw[k])]

\* [type, read_pos]
read_function_op(input, read_pos0) ==
  LET read_pos == skip_white_space(input, read_pos0)
      paren_pos == find(input, "(", read_pos)
      \* the name before paren_pos names type
      named(type) ==
        IF type = "NONE" THEN [type |-> "NONE", read_pos |-> read_pos]
        ELSE [type |-> type, read_pos |-> paren_pos]
  IN IF paren_pos = -1 THEN [type |-> "NONE", read_pos |-> read_pos]
     ELSE named(function_named(func_table,
                               lower_case(substr(input, read_pos, paren_pos - read_pos))))

next_input_is_function_name(input, read_pos) ==
  read_function_op(input, read_pos).type # "NONE"

\* [offset, read_pos]
read_member_offset(input, read_pos) ==
  IF read_pos = Len(input) THEN [offset |-> -1, read_pos |-> read_pos]
  ELSE LET name == input[read_pos + 1]
       IN IF name \in {"x", "X"} THEN [offset |-> 2, read_pos |-> read_pos + 1]
          ELSE IF name \in {"y", "Y"} THEN [offset |-> 1, read_pos |-> read_pos + 1]
          ELSE IF name \in {"z", "Z"} THEN [offset |-> 0, read_pos |-> read_pos + 1]
          ELSE [offset |-> -1, read_pos |-> read_pos]

\* [type, read_pos]
read_operator_op(input, read_pos0) ==
  LET read_pos == skip_white_space(input, read_pos0)
      op_char == input[read_pos + 1]
      two_char_op == substr(input, read_pos, 2)
      three_char_op == substr(input, read_pos, 3)
      R(t, pos) == [type |-> t, read_pos |-> pos]
  IN IF read_pos = Len(input) THEN R("NONE", read_pos)
     ELSE IF op_char = "+" THEN R("OPERATOR_PLUS", read_pos + 1)
     ELSE IF op_char = "-" THEN R("OPERATOR_MINUS", read_pos + 1)
     ELSE IF op_char = "*" THEN R("OPERATOR_MULTIPLY", read_pos + 1)
     ELSE IF op_char = "/" THEN R("OPERATOR_DIVIDE", read_pos + 1)
     ELSE IF op_char = "^" THEN R("OPERATOR_POWER", read_pos + 1)
     ELSE IF op_char = "%" THEN R("OPERATOR_MODULO", read_pos + 1)
     ELSE IF op_char = "." THEN R("OPERATOR_GET_MEMBER_VEC", read_pos + 1)
     ELSE IF Len(input) - read_pos < 2 THEN R("NONE", read_pos)
     ELSE IF two_char_op = <<"=", "=">> THEN R("OPERATOR_EQUAL", read_pos + 2)
     ELSE IF two_char_op = <<"!", "=">> THEN R("OPERATOR_NOT_EQUAL", read_pos + 2)
     ELSE IF two_char_op = <<">", "=">> THEN R("OPERATOR_GREATER_EQUAL", read_pos + 2)
     ELSE IF two_char_op = <<"<", "=">> THEN R("OPERATOR_LESS_EQUAL", read_pos + 2)
     ELSE IF two_char_op = <<"o", "r">> THEN R("OPERATOR_OR", read_pos + 2)
     ELSE IF two_char_op = <<"O", "R">> THEN R("OPERATOR_OR", read_pos + 2)
     ELSE IF two_char_op = <<"|", "|">> THEN R("OPERATOR_OR", read_pos + 2)
     ELSE IF two_char_op = <<"&", "&">> THEN R("OPERATOR_AND", read_pos + 2)
     ELSE IF op_char = ">" THEN R("OPERATOR_GREATER", read_pos + 1)
     ELSE IF op_char = "<" THEN R("OPERATOR_LESS", read_pos + 1)
     ELSE IF op_char = "=" THEN R("OPERATOR_EQUAL", read_pos + 1)
     ELSE IF Len(input) - read_pos < 3 THEN R("NONE", read_pos)
     ELSE IF three_char_op = <<"a", "n", "d">> \/ three_char_op = <<"A", "N", "D">>
     THEN R("OPERATOR_AND", read_pos + 3)
     ELSE R("NONE", read_pos + 3)

is_special_const(var_name) ==
  IF Len(var_name) = 2 /\ var_name[1] \in {"p", "P"} /\ var_name[2] \in {"i", "I"}
  THEN [is |-> TRUE, val |-> PiBits]
  ELSE IF /\ Len(var_name) = 3 /\ var_name[1] \in {"t", "T"}
          /\ var_name[2] \in {"a", "A"} /\ var_name[3] \in {"u", "U"}
  THEN [is |-> TRUE, val |-> TauBits]
  ELSE [is |-> FALSE, val |-> 0]

parse_left_paren(input, c, p0) ==
  LET p == AtPos(p0, skip_white_space(input, p0.read_pos))
  IN IF p.read_pos # Len(input) /\ input[p.read_pos + 1] = "("
     THEN Ret(AtPos(add_token(p, "LEFT_PAREN", 0), p.read_pos + 1), TRUE)
     ELSE Ret(set_error_if_none(p, "Expected (", p.read_pos), FALSE)

parse_right_paren(input, c, p0) ==
  LET p == AtPos(p0, skip_white_space(input, p0.read_pos))
  IN IF p.read_pos # Len(input) /\ input[p.read_pos + 1] = ")"
     THEN Ret(AtPos(add_token(p, "RIGHT_PAREN", 0), p.read_pos + 1), TRUE)
     ELSE Ret(set_error_if_none(p, "Expected )", p.read_pos), FALSE)

parse_comma(input, c, p0) ==
  LET p == AtPos(p0, skip_white_space(input, p0.read_pos))
  IN IF p.read_pos # Len(input) /\ input[p.read_pos + 1] = ","
     THEN Ret(AtPos(add_token(p, "COMMA", 0), p.read_pos + 1), TRUE)
     ELSE Ret(set_error_if_none(p, "Expected ','", p.read_pos), FALSE)

parse_operator(input, c, p0) ==
  LET p == AtPos(p0, skip_white_space(input, p0.read_pos))
      start_read_pos == p.read_pos
      \* read_operator_op returned op and, for the member operator,
      \* read_member_offset returned member
      token(op, member) ==
        IF op.type = "NONE" THEN Ret(AtPos(p, op.read_pos), FALSE)
        ELSE IF op.type = "OPERATOR_GET_MEMBER_VEC"
        THEN IF member.offset = -1
             THEN Ret(set_error_if_none(AtPos(p, start_read_pos),
                                        "Expected member name directly after \".\"",
                                        start_read_pos), FALSE)
             ELSE Ret(AtPos(add_token(p, op.type, member.offset), member.read_pos), TRUE)
        ELSE Ret(AtPos(add_token(p, op.type, 0), op.read_pos), TRUE)
      operator(op) == token(op, read_member_offset(input, op.read_pos))
  IN IF p.read_pos = Len(input) THEN Ret(p, FALSE)
     ELSE operator(read_operator_op(input, p.read_pos))

parse_number(input, c, p0) ==
  LET p == AtPos(p0, skip_white_space(input, p0.read_pos))
      \* from_chars read the float fl and the int in
      number(fl, in) ==
        IF in.ok \/ fl.ok
        THEN IF in.ok /\ (~fl.ok \/ in.ptr >= fl.ptr)
             THEN Ret(AtPos(add_token(p, "CONSTANT_INT", in.x), in.ptr), TRUE)
             ELSE Ret(AtPos(add_token(p, "CONSTANT_FLOAT", fl.f), fl.ptr), TRUE)
        ELSE Ret(set_error_if_none(p, "Invalid number", p.read_pos), FALSE)
  IN IF p.read_pos = Len(input) THEN Ret(p, FALSE)
     ELSE number(from_chars_float(input, p.read_pos), from_chars_int(input, p.read_pos))

variable_token(socket_type) ==
  CASE socket_type = "SOCK_BOOLEAN" -> "VARIABLE_BOOL"
    [] socket_type = "SOCK_INT" -> "VARIABLE_INT"
    [] socket_type = "SOCK_FLOAT" -> "VARIABLE_FLOAT"
    [] socket_type = "SOCK_VECTOR" -> "VARIABLE_VEC"

\* the index of the first of names that is var_name, -1 when there is none
input_index(names, var_name) ==
  IF \A k \in 1..Len(names) : names[k] # var_name THEN -1
  ELSE (CHOOSE k \in 1..Len(names) :
          /\ names[k] = var_name
          /\ \A j \in 1..(k - 1) : names[j] # var_name) - 1

parse_variable(input, c, p0) ==
  LET p == AtPos(p0, skip_white_space(input, p0.read_pos))
      variable(name_len, special, input_idx) ==
        IF special.is
        THEN Ret(AtPos(add_token(p, "CONSTANT_FLOAT", special.val), p.read_pos + name_len),
                 TRUE)
        ELSE IF input_idx = -1
        THEN Ret(set_error_if_none(p, "Unknown input name", p.read_pos), FALSE)
        ELSE Ret(AtPos(add_token(p, variable_token(c.input_types_[input_idx + 1]),
                                 input_idx),
                       p.read_pos + name_len), TRUE)
      named(name_len, var_name) ==
        variable(name_len, is_special_const(var_name), input_index(c.input_names_, var_name))
      sized(name_len) ==
        IF name_len = 0
        THEN Ret(set_error_if_none(p, "Expected a variable name", p.read_pos), FALSE)
        ELSE named(name_len, substr(input, p.read_pos, name_len))
  IN IF p.read_pos = Len(input) THEN Ret(p, FALSE)
     ELSE sized(read_variable_name_size(input, p.read_pos))

Frame(fn, close, comma) ==
  [fn |-> fn, at |-> "start", close |-> close, comma |-> comma, start |-> 0, left |-> 0,
   nargs |-> 0]

top_frame(p) == p.stack[Len(p.stack)]

\* return v;
Return(p, v) == [p EXCEPT !.stack = SubSeq(@, 1, Len(@) - 1), !.ret = v]

\* the position and the locals of the running function
Goto(p, at) == [p EXCEPT !.stack[Len(p.stack)].at = at]

SetStart(p, start) == [p EXCEPT !.stack[Len(p.stack)].start = start]

\* a call from which the running function resumes at position at
Call(p, at, frame) == [p EXCEPT !.stack = Append(Goto(p, at).stack, frame)]

\* return fn(...);
ReturnCall(p, frame) == [p EXCEPT !.stack = Append(SubSeq(@, 1, Len(@) - 1), frame)]

\* the body of the loop of parse_expression, up to its next call or return
parse_expression_loop(input, c, p0) ==
  LET f == top_frame(p0)
      p == AtPos(p0, skip_white_space(input, p0.read_pos))
      \* parse_operator returned p1
      operator(p1) ==
        IF ~p1.ret
        THEN Return(set_error_if_none(p1, "Expected an operator", p1.read_pos), FALSE)
        ELSE IF ~is_postfix_operator(p1.output[Len(p1.output)])
        THEN Call(p1, "operand", Frame("parse_operand_or_unary", FALSE, FALSE))
        ELSE Goto(p1, "loop")
  IN IF p.read_pos = Len(input) THEN Return(p, TRUE)
     ELSE IF f.close /\ input[p.read_pos + 1] = ")" THEN Return(p, TRUE)
     ELSE IF f.comma /\ input[p.read_pos + 1] = "," THEN Return(p, TRUE)
     ELSE operator(parse_operator(input, c, p))

parse_expression(input, c, p0) ==
  LET f == top_frame(p0)
      p == AtPos(p0, skip_white_space(input, p0.read_pos))
  IN IF f.at = "start"
     THEN IF p.read_pos = Len(input) THEN Return(p, FALSE)
          ELSE Call(p, "first", Frame("parse_operand_or_unary", FALSE, FALSE))
     ELSE IF f.at = "first" /\ ~p0.ret
     THEN Return(set_error_if_none(p0, "Expected an operand", p0.read_pos), FALSE)
     ELSE IF f.at = "operand" /\ ~p0.ret
     THEN Return(set_error_if_none(p0, "Expected an operand after operator",
                                   p0.read_pos), FALSE)
     ELSE parse_expression_loop(input, c, p0)

parse_operand_or_unary(input, c, p0, g) ==
  LET f == top_frame(p0)
      p == AtPos(p0, skip_white_space(input, p0.read_pos))
      ch == input[p.read_pos + 1]
      unary_op == IF /\ ch = "-" /\ p.read_pos < Len(input) - 1
                     /\ ~isdigit(input[p.read_pos + 2])
                  THEN "OPERATOR_UNARY_MINUS"
                  ELSE IF ch = "!" THEN "OPERATOR_UNARY_NOT"
                  ELSE "NONE"
  IN IF f.at = "start"
     THEN IF p.read_pos = Len(input) THEN Return(p, FALSE)
          ELSE IF unary_op # "NONE"
          THEN Call(AtPos(add_token(p, unary_op, 0), p.read_pos + 1), "operand",
                    Frame("parse_operand", FALSE, FALSE))
          ELSE ReturnCall(p, Frame("parse_operand", FALSE, FALSE))
     ELSE IF ~p0.ret
     THEN Return(set_error_if_none(p0, "Expected operand after unary operator",
                                   p0.read_pos), FALSE)
     ELSE Return(p0, g)

parse_operand(input, c, p0) ==
  LET f == top_frame(p0)
      p == AtPos(p0, skip_white_space(input, p0.read_pos))
      \* return parse_variable(...);
      variable(p5) == Return(p5, p5.ret)
      \* error_msg_ = "" left the parse p4
      name(p4) ==
        IF read_variable_name_size(input, p4.read_pos) # 0
        THEN variable(parse_variable(input, c, p4))
        ELSE Return(set_error_if_none(p4, "Expected a constant, variable or function",
                                      p4.read_pos), FALSE)
      \* parse_number returned p3
      number(p3) ==
        IF p3.ret THEN Return(p3, TRUE) ELSE name(assign_error(p3, "", p3.error_pos_))
      \* parse_right_paren returned p2
      paren(p2) ==
        IF ~p2.ret THEN Return(assign_error(p2, "Unclosed parenthesis", f.start), FALSE)
        ELSE Return(p2, TRUE)
  IN IF f.at = "start"
     THEN IF p.read_pos = Len(input) THEN Return(p, FALSE)
          ELSE IF input[p.read_pos + 1] = "("
          THEN Call(SetStart(AtPos(add_token(p, "LEFT_PAREN", 0), p.read_pos + 1),
                             p.read_pos),
                    "paren", Frame("parse_expression", TRUE, FALSE))
          ELSE IF next_input_is_function_name(input, p.read_pos)
          THEN ReturnCall(p, Frame("parse_function", FALSE, FALSE))
          ELSE number(parse_number(input, c, p))
     ELSE IF ~p0.ret
     THEN Return(set_error_if_none(p0, "Expected expression after parenthesis",
                                   p0.read_pos), FALSE)
     ELSE paren(parse_right_paren(input, c, p0))

\* the argument loop ending at a right parenthesis wherever a comma is
\* expected, so that a call may have fewer arguments
parse_function_args_optional(input, c, p0, g) ==
  LET f == top_frame(p0)
      paren(p3) == IF ~p3.ret THEN Return(p3, FALSE) ELSE Return(p3, g)
      comma(p1) ==
        IF ~p1.ret THEN paren(parse_right_paren(input, c, p0))
        ELSE Call([p1 EXCEPT !.stack[Len(p1.stack)].left = f.left - 1], "arg",
                  Frame("parse_expression", TRUE, f.left - 1 > 0))
  IN IF f.left # 0 THEN comma(parse_comma(input, c, p0))
     ELSE paren(parse_right_paren(input, c, p0))

\* parse_function from the test of "while (expected_args--)" on
parse_function_args(input, c, p0, g) ==
  LET f == top_frame(p0)
      \* parse_comma returned p1
      comma(p1) ==
        IF ~p1.ret THEN Return(AtPos(p1, f.start), FALSE)
        ELSE Call([p1 EXCEPT !.stack[Len(p1.stack)].left = f.left - 1], "arg",
                  Frame("parse_expression", TRUE, f.left - 1 > 0))
      \* parse_right_paren returned p3
      paren(p3) == IF ~p3.ret THEN Return(p3, FALSE) ELSE Return(p3, g)
  IN IF f.left # 0 THEN comma(parse_comma(input, c, p0))
     ELSE paren(parse_right_paren(input, c, p0))

parse_function(input, c, p0, g) ==
  LET f == top_frame(p0)
      p == AtPos(p0, skip_white_space(input, p0.read_pos))
      start_read_pos == p.read_pos
      \* parse_left_paren returned p1
      left_paren(nargs, p1) ==
        IF ~p1.ret THEN Return(AtPos(p1, start_read_pos), FALSE)
        ELSE Call([p1 EXCEPT !.stack[Len(p1.stack)].start = p1.read_pos,
                             !.stack[Len(p1.stack)].nargs = nargs,
                             !.stack[Len(p1.stack)].left = nargs - 1],
                  "first", Frame("parse_expression", TRUE, nargs > 1))
      \* read_function_op returned function_op
      function(function_op) ==
        IF function_op.type = "NONE"
        THEN Return(set_error_if_none(AtPos(p, function_op.read_pos),
                                      "Unknown function name", start_read_pos), FALSE)
        ELSE left_paren(num_args(function_op),
                        parse_left_paren(input, c,
                                         AtPos(add_token(p, function_op.type, 0),
                                               function_op.read_pos)))
  IN IF f.at = "start"
     THEN IF p.read_pos = Len(input) THEN Return(p, FALSE)
          ELSE function(read_function_op(input, p.read_pos))
     ELSE IF f.at = "first" /\ ~p0.ret THEN Return(AtPos(p0, f.start), FALSE)
     ELSE IF f.at # "first" /\ ~p0.ret
     THEN Return(AtPos(set_error_if_none(p0,
                                         IF f.nargs = 2
                                         THEN "Expected 2 arguments to function"
                                         ELSE "Expected 3 arguments to function",
                                         f.start),
                       f.start), FALSE)
     ELSE parse_function_args(input, c, p0, g)

\* ExpressionParser::parse up to its call of parse_expression
parse_begin ==
  [read_pos |-> 0, output |-> <<>>, error_msg_ |-> "", error_pos_ |-> 0,
   writes |-> <<>>, ret |-> FALSE, stack |-> <<Frame("parse_expression", FALSE, FALSE)>>]

parse_running(p) == p.stack # <<>>

\* the running function of the parse p, up to its next call or its return
parse_step(input, c, p, g) ==
  LET fn == top_frame(p).fn
  IN IF fn = "parse_expression" THEN parse_expression(input, c, p)
     ELSE IF fn = "parse_operand_or_unary" THEN parse_operand_or_unary(input, c, p, g)
     ELSE IF fn = "parse_operand" THEN parse_operand(input, c, p)
     ELSE parse_function(input, c, p, g)

\* whether the step of p ends in a function flowing off its end
flows_off(input, c, p) == parse_step(input, c, p, TRUE) # parse_step(input, c, p, FALSE)

\* ExpressionParser::parse where every function that flows off its end is
\* read as having returned true
RECURSIVE parse_from(_, _, _)
parse_from(input, c, p) ==
  IF parse_running(p) THEN parse_from(input, c, parse_step(input, c, p, TRUE)) ELSE p

parse(expression, c) == parse_from(expression, c, parse_begin)

(***************************************************************************)
(* ExpressionProgram: lowering of one operator or function.                *)
(* Argument kinds are handled as a sequence <<arg1_type, ...>>; the one-,  *)
(* two- and three-argument overloads of the source differ only in length.  *)
(***************************************************************************)
MAX_STACK == 100

eValueType == {"NONE", "FLOAT", "INT", "VEC"}

stack_space(type) == IF type = "VEC" THEN 3 ELSE 1

\* argk_type of a row of token_info
arg_of(info, k) ==
  CASE k = 1 -> info.arg1_type
    [] k = 2 -> info.arg2_type
    [] k = 3 -> info.arg3_type

arg_type(func, k) == arg_of(token_info(func), k)

check_arguments_match(func, args) ==
  \A k \in 1..Len(args) : arg_type(func, k) = args[k]

\* the first row of table with base t, 0 when there is none
first_base(table, t) ==
  IF \A k \in 1..Len(table) : table[k].base # t THEN 0
  ELSE CHOOSE k \in 1..Len(table) :
         table[k].base = t /\ \A j \in 1..(k - 1) : table[j].base # t

\* the alternatives of the overload set of t, <<>> when there is none
find_overloads(t) ==
  LET alts(table, k) == IF k = 0 THEN <<>> ELSE table[k].alts
  IN alts(overloads, first_base(overloads, t))

\* the base operator if its arguments match, without a look at the overloads
first_match_base_only(versions, args) ==
  IF check_arguments_match(versions[1], args) THEN versions[1] ELSE "NONE"

\* the first of versions whose arguments match, NONE when there is none;
\* get_op_version_for_type tries the first 1 + max_overloads of them
first_match(versions, args) ==
  LET first(fits) ==
        IF fits = {} THEN "NONE" ELSE versions[CHOOSE k \in fits : \A j \in fits : k <= j]
  IN first({k \in 1..Len(versions) :
              k <= 1 + max_overloads /\ check_arguments_match(versions[k], args)})

\* base_type if its arguments match, or else the first alternative of its
\* overload set whose arguments match
get_op_version_for_type(base_type, args) ==
  first_match(<<base_type>> \o find_overloads(base_type), args)

\* get_type_conversion_op without the test of allowed_implicit_only
get_type_conversion_op_any(from_type, to_type, allowed_implicit_only) ==
  IF from_type = "INT" /\ to_type = "FLOAT" THEN "CONVERT_INT_FLOAT"
  ELSE IF from_type = "FLOAT" /\ to_type = "INT" THEN "CONVERT_FLOAT_INT"
  ELSE "NONE"

get_type_conversion_op(from_type, to_type, allowed_implicit_only) ==
  IF from_type = "INT" /\ to_type = "FLOAT" THEN "CONVERT_INT_FLOAT"
  ELSE IF allowed_implicit_only THEN "NONE"
  ELSE IF from_type = "FLOAT" /\ to_type = "INT" THEN "CONVERT_FLOAT_INT"
  ELSE "NONE"

is_scalar(type) == type = "FLOAT" \/ type = "INT"

\* The result of perform_type_conversion: the operator to emit (NONE when there
\* is none), the conversion tokens it added to the output and the argument
\* kinds as it left them.
Conversion(op, added, args) == [op |-> op, added |-> added, args |-> args]

perform_type_conversion1(type, arg_type0) ==
  LET convert(specialized_op, float_op) ==
        IF specialized_op # "NONE" THEN Conversion(specialized_op, <<>>, <<arg_type0>>)
        ELSE IF arg_type0 = "INT" /\ float_op # "NONE"
        THEN Conversion(float_op, <<Token("CONVERT_INT_FLOAT", 0)>>, <<"FLOAT">>)
        ELSE Conversion("NONE", <<>>, <<arg_type0>>)
  IN convert(get_op_version_for_type(type, <<arg_type0>>),
             get_op_version_for_type(type, <<"FLOAT">>))

perform_type_conversion2(type, arg1_type, arg2_type) ==
  LET convert_op1 == get_type_conversion_op(arg1_type, arg2_type, TRUE)
      convert_op2 == get_type_conversion_op(arg2_type, arg1_type, TRUE)
      convert(specialized_op, op_22, op_11, op_ff, op_f2, op_1f) ==
        IF specialized_op # "NONE"
        THEN Conversion(specialized_op, <<>>, <<arg1_type, arg2_type>>)
        ELSE IF convert_op1 # "NONE" /\ op_22 # "NONE"
        THEN Conversion(op_22, <<Token(convert_op1, stack_space(arg2_type))>>,
                        <<arg2_type, arg2_type>>)
        ELSE IF convert_op2 # "NONE" /\ op_11 # "NONE"
        THEN Conversion(op_11, <<Token(convert_op2, 0)>>, <<arg1_type, arg1_type>>)
        ELSE IF arg1_type = "INT" /\ arg2_type = "INT" /\ op_ff # "NONE"
        THEN Conversion(op_ff,
                        <<Token("CONVERT_INT_FLOAT", 1), Token("CONVERT_INT_FLOAT", 0)>>,
                        <<"FLOAT", "FLOAT">>)
        ELSE IF arg1_type = "INT" /\ arg2_type = "VEC" /\ op_f2 # "NONE"
        THEN Conversion(op_f2, <<Token("CONVERT_INT_FLOAT", stack_space(arg2_type))>>,
                        <<"FLOAT", arg2_type>>)
        ELSE IF arg1_type = "VEC" /\ arg2_type = "INT" /\ op_1f # "NONE"
        THEN Conversion(op_1f, <<Token("CONVERT_INT_FLOAT", 0)>>, <<arg1_type, "FLOAT">>)
        ELSE Conversion("NONE", <<>>, <<arg1_type, arg2_type>>)
  IN convert(get_op_version_for_type(type, <<arg1_type, arg2_type>>),
             get_op_version_for_type(type, <<arg2_type, arg2_type>>),
             get_op_version_for_type(type, <<arg1_type, arg1_type>>),
             get_op_version_for_type(type, <<"FLOAT", "FLOAT">>),
             get_op_version_for_type(type, <<"FLOAT", arg2_type>>),
             get_op_version_for_type(type, <<arg1_type, "FLOAT">>))

\* the tokens "if (argk_type == INT) add_token(CONVERT_INT_FLOAT, offset)" adds
\* for the arguments from position first on, an argument at position k being
\* Len(args) - k cells above the top
widen_from(args, first) ==
  LET ks == {k \in first..Len(args) : args[k] = "INT"}
      F[k \in 0..Len(args)] ==
        IF k < first THEN <<>>
        ELSE IF k \in ks THEN Append(F[k - 1], Token("CONVERT_INT_FLOAT", Len(args) - k))
        ELSE F[k - 1]
  IN F[Len(args)]

perform_type_conversion3(type, arg1_type, arg2_type, arg3_type) ==
  LET args == <<arg1_type, arg2_type, arg3_type>>
      convert(specialized_op, all_float_op, last2_float_op) ==
        IF specialized_op # "NONE" THEN Conversion(specialized_op, <<>>, args)
        ELSE IF /\ all_float_op # "NONE"
                /\ is_scalar(arg1_type) /\ is_scalar(arg2_type) /\ is_scalar(arg3_type)
        THEN Conversion(all_float_op, widen_from(args, 1), <<"FLOAT", "FLOAT", "FLOAT">>)
        ELSE IF last2_float_op # "NONE" /\ is_scalar(arg2_type) /\ is_scalar(arg3_type)
        THEN Conversion(last2_float_op, widen_from(args, 2),
                        <<arg1_type, "FLOAT", "FLOAT">>)
        ELSE Conversion("NONE", <<>>, args)
  IN convert(get_op_version_for_type(type, args),
             get_op_version_for_type(type, <<"FLOAT", "FLOAT", "FLOAT">>),
             get_op_version_for_type(type, <<arg1_type, "FLOAT", "FLOAT">>))

perform_type_conversion(type, args) ==
  CASE Len(args) = 1 -> perform_type_conversion1(type, args[1])
    [] Len(args) = 2 -> perform_type_conversion2(type, args[1], args[2])
    [] Len(args) = 3 -> perform_type_conversion3(type, args[1], args[2], args[3])

(***************************************************************************)
(* create_postfix_program as a machine.  Its state is the record           *)
(*   [n, phase, operator_stack, stack_type, below, stack_size, output,     *)
(*    error_msg, lowered, corrupt]                                         *)
(* n is the index of the infix token being handled; phase is the position  *)
(* in the function: "loop" (top of the for loop), "pop" (the while loop of *)
(* the operator branch), "pop_paren" (the while loop of the RIGHT_PAREN /  *)
(* COMMA branch), "rest" (the loop that empties the operator stack),       *)
(* "final" (the output coercion), "ok" / "failed" (returned true / false)  *)
(* and "aborted" (a BLI_assert stopped the process).                       *)
(*                                                                         *)
(* stack_type.last(k) with k >= size reads below the buffer of the vector. *)
(* A build with assertions aborts there; one without reads whatever the    *)
(* memory holds.  The step takes that outcome as its argument g: "abort"   *)
(* or the kind that is read.  below is what the slot just under the buffer *)
(* holds once stack_type.append has written it (after pop_last took the    *)
(* size to -1).  lowered describes the lowering the last step performed,   *)
(* corrupt whether any lowering so far went below the buffer.              *)
(***************************************************************************)
NoLowering ==
  [op |-> "NONE", specialized_op |-> "NONE", arity |-> 0, depth |-> 0,
   read |-> <<>>, args |-> <<>>, added |-> <<>>]

CompileInit ==
  [n |-> 0, phase |-> "loop", operator_stack |-> <<>>, stack_type |-> <<>>,
   below |-> "unwritten", stack_size |-> 0, output |-> <<>>, error_msg |-> <<>>,
   lowered |-> NoLowering, corrupt |-> FALSE]

last(seq) == seq[Len(seq)]

discard_last(seq) == SubSeq(seq, 1, Len(seq) - 1)

\* stack_type.last(k)
last_type(cs, k, g) ==
  IF k < Len(cs.stack_type) THEN cs.stack_type[Len(cs.stack_type) - k]
  ELSE IF k = Len(cs.stack_type) /\ cs.below # "unwritten" THEN cs.below
  ELSE g

output_constant(cs, t) ==
  [cs EXCEPT !.output = Append(@, t),
             !.stack_size = @ + 1,
             !.stack_type = Append(@, IF t.type = "CONSTANT_FLOAT" THEN "FLOAT" ELSE "INT")]

output_variable(cs, t) ==
  LET type == IF t.type = "VARIABLE_VEC" THEN "VEC"
              ELSE IF t.type = "VARIABLE_INT" \/ t.type = "VARIABLE_BOOL" THEN "INT"
              ELSE "FLOAT"
  IN [cs EXCEPT !.output = Append(@, t),
                !.stack_type = Append(@, type),
                !.stack_size = @ + stack_space(type)]

\* the number of entries output_op_or_function reads for the operator t
lowering_arity(t) ==
  LET arity(nargs) == IF nargs = 1 THEN 1 ELSE IF nargs = 3 THEN 3 ELSE 2
  IN arity(num_args(t))

RECURSIVE sum_stack_space(_)
sum_stack_space(types) ==
  IF types = <<>> THEN 0 ELSE stack_space(Head(types)) + sum_stack_space(Tail(types))

unsupported_type_error(cs, t, g) ==
  LET message(info, arg1_type, arg2_type) ==
        LET token_name == info.name
            catch_all == <<token_name, ": ", ": wrong data type.">>
        IN IF info.num_args = 1
           THEN IF arg1_type = "VEC"
                THEN <<token_name, ": ", ": Cannot perform this function on a vector">>
                ELSE catch_all
           ELSE IF info.num_args = 2
           THEN IF \/ arg1_type = "VEC" /\ arg2_type # "VEC"
                   \/ arg1_type # "VEC" /\ arg2_type = "VEC"
                THEN <<token_name, ": ",
                       "Cannot mix vector and non vector types in this operation">>
                ELSE IF arg1_type = "VEC" /\ arg2_type = "VEC"
                THEN <<token_name, ": ", "Cannot perform this operation on a vector">>
                ELSE catch_all
           ELSE IF info.num_args = 3
           THEN <<token_name, ": ", "incorrect argument type">>
           ELSE catch_all
  IN message(token_info(t.type), last_type(cs, 0, g), last_type(cs, 1, g))

\* output_op_or_function(t), followed by what its caller does with the
\* result: the error return, or operator_stack.discard_last()
output_op_or_function(cs, t, g) ==
  LET depth == Len(cs.stack_type)
      \* perform_type_conversion gave conv for the kinds read; result is the
      \* result type of conv.op and error the message for unsupported types
      emit(arity, read, conv, result, error) ==
        LET below_read == arity > depth /\ (arity > depth + 1 \/ cs.below = "unwritten")
            lowered == [op |-> t.type, specialized_op |-> conv.op, arity |-> arity,
                        depth |-> depth, read |-> read, args |-> conv.args,
                        added |-> conv.added]
        IN IF (below_read /\ g = "abort") \/ arity > depth + 1
           THEN [cs EXCEPT !.phase = "aborted", !.lowered = NoLowering]
           ELSE IF conv.op = "NONE"
           THEN [cs EXCEPT !.phase = "failed",
                           !.error_msg = error,
                           !.lowered = lowered,
                           !.corrupt = @ \/ arity > depth]
           ELSE [cs EXCEPT !.output = Append(@ \o conv.added, Token(conv.op, t.value)),
                           !.stack_size = (@ - sum_stack_space(conv.args))
                                          + stack_space(result),
                           !.stack_type = IF arity > depth THEN <<>>
                                          ELSE Append(SubSeq(@, 1, depth - arity), result),
                           !.below = IF arity > depth THEN result ELSE @,
                           !.operator_stack = discard_last(@),
                           !.lowered = lowered,
                           !.corrupt = @ \/ arity > depth]
      convert(arity, read, conv) ==
        emit(arity, read, conv, result_type(conv.op), unsupported_type_error(cs, t, g))
      \* read is <<stack_type.last(arity - 1), ..., stack_type.last(0)>>
      lower(arity, read) == convert(arity, read, perform_type_conversion(t.type, read))
      reading(arity) == lower(arity, [k \in 1..arity |-> last_type(cs, arity - k, g)])
  IN reading(lowering_arity(t))

\* the end of one iteration of the for loop: the stack check and n++
end_of_token(cs, ntokens) ==
  IF cs.stack_size > MAX_STACK
  THEN [cs EXCEPT !.phase = "failed",
                  !.error_msg = <<"Expression uses too much stack space">>]
  ELSE [cs EXCEPT !.n = @ + 1,
                  !.phase = IF cs.n + 1 < ntokens THEN "loop" ELSE "rest"]

\* a push that also copies a left parenthesis to the output
push_operator_copying_paren(cs, t) ==
  [cs EXCEPT !.operator_stack = Append(@, t),
             !.output = IF t.type = "LEFT_PAREN" THEN Append(@, t) ELSE @]

push_operator(cs, t) == [cs EXCEPT !.operator_stack = Append(@, t)]

\* the output coercion without the two constants that make a scalar a vector
final_coercion_unpadded(cs, output_type, g) ==
  LET top_type == last_type(cs, 0, g)
      conv_int == IF /\ top_type = "INT"
                     /\ output_type # "SOCK_BOOLEAN" /\ output_type # "SOCK_INT"
                  THEN <<Token("CONVERT_INT_FLOAT", 0)>> ELSE <<>>
      member == IF top_type = "VEC" /\ output_type # "SOCK_VECTOR"
                THEN <<Token("OPERATOR_GET_MEMBER_VEC", 2)>> ELSE <<>>
      conv_float == IF /\ top_type # "INT"
                       /\ (output_type = "SOCK_BOOLEAN" \/ output_type = "SOCK_INT")
                    THEN <<Token("CONVERT_FLOAT_INT", 0)>> ELSE <<>>
  IN [cs EXCEPT !.output = @ \o conv_int \o member \o conv_float,
                !.phase = "ok", !.lowered = NoLowering]

\* the output coercion taking the member at offset 0 of a vector
final_coercion_last_member(cs, output_type, g) ==
  LET top_type == last_type(cs, 0, g)
      conv_int == IF /\ top_type = "INT"
                     /\ output_type # "SOCK_BOOLEAN" /\ output_type # "SOCK_INT"
                  THEN <<Token("CONVERT_INT_FLOAT", 0)>> ELSE <<>>
      member == IF top_type = "VEC" /\ output_type # "SOCK_VECTOR"
                THEN <<Token("OPERATOR_GET_MEMBER_VEC", 0)>> ELSE <<>>
      zeros == IF output_type = "SOCK_VECTOR" /\ top_type # "VEC"
               THEN <<Token("CONSTANT_FLOAT", 0), Token("CONSTANT_FLOAT", 0)>> ELSE <<>>
      conv_float == IF /\ top_type # "INT"
                       /\ (output_type = "SOCK_BOOLEAN" \/ output_type = "SOCK_INT")
                    THEN <<Token("CONVERT_FLOAT_INT", 0)>> ELSE <<>>
  IN IF cs.stack_type = <<>> /\ (g = "abort" \/ cs.below = "unwritten")
     THEN [cs EXCEPT !.phase = "aborted", !.lowered = NoLowering]
     ELSE [cs EXCEPT !.output = @ \o conv_int \o member \o zeros \o conv_float,
                     !.phase = "ok", !.lowered = NoLowering]

\* the output coercion at the end of create_postfix_program
final_coercion(cs, output_type, g) ==
  LET top_type == last_type(cs, 0, g)
      conv_int == IF /\ top_type = "INT"
                     /\ output_type # "SOCK_BOOLEAN" /\ output_type # "SOCK_INT"
                  THEN <<Token("CONVERT_INT_FLOAT", 0)>> ELSE <<>>
      member == IF top_type = "VEC" /\ output_type # "SOCK_VECTOR"
                THEN <<Token("OPERATOR_GET_MEMBER_VEC", 2)>> ELSE <<>>
      zeros == IF output_type = "SOCK_VECTOR" /\ top_type # "VEC"
               THEN <<Token("CONSTANT_FLOAT", 0), Token("CONSTANT_FLOAT", 0)>> ELSE <<>>
      conv_float == IF /\ top_type # "INT"
                       /\ (output_type = "SOCK_BOOLEAN" \/ output_type = "SOCK_INT")
                    THEN <<Token("CONVERT_FLOAT_INT", 0)>> ELSE <<>>
  IN IF cs.stack_type = <<>> /\ (g = "abort" \/ cs.below = "unwritten")
     THEN [cs EXCEPT !.phase = "aborted", !.lowered = NoLowering]
     ELSE [cs EXCEPT !.output = @ \o conv_int \o member \o zeros \o conv_float,
                     !.phase = "ok", !.lowered = NoLowering]

\* the test that also keeps an operator of equal precedence on the stack
lower_or_equal_precedence(top, t) == precedence(top) <= precedence(t)

\* operator_stack.last().precedence() < precedence
lower_precedence(top, t) == precedence(top) < precedence(t)

\* the loops without the one of the RIGHT_PAREN / COMMA branch, which then
\* leaves the operators inside the parentheses on the operator stack
lowers_top_outside_parens(cs, t, top) ==
  /\ cs.operator_stack # <<>>
  /\ \/ cs.phase = "rest"
     \/ cs.phase = "pop" /\ ~(lower_precedence(top, t) \/ top.type = "LEFT_PAREN")

\* whether the step of cs lowers the operator on top of the operator stack: in
\* the while loop of the operator branch, in the while loop of the
\* RIGHT_PAREN / COMMA branch, or in the loop that empties the stack
lowers_top(cs, t, top) ==
  /\ cs.operator_stack # <<>>
  /\ \/ cs.phase = "rest"
     \/ cs.phase = "pop_paren" /\ top.type # "LEFT_PAREN"
     \/ cs.phase = "pop" /\ ~(lower_precedence(top, t) \/ top.type = "LEFT_PAREN")

\* the kind of a token as the branches of the for loop test it
branch_of(t) ==
  IF is_operand(t) THEN IF is_constant(t) THEN "constant" ELSE "variable"
  ELSE IF is_operator_or_function(t) THEN "operator"
  ELSE t.type

\* one iteration of the for loop up to its while loops, for a token of branch
\* branch
loop_step(cs, t, top, ntokens, branch) ==
  IF branch = "constant" THEN end_of_token(output_constant(cs, t), ntokens)
  ELSE IF branch = "variable" THEN end_of_token(output_variable(cs, t), ntokens)
  ELSE IF branch = "operator"
  THEN IF \/ cs.operator_stack = <<>>
          \/ top.type = "LEFT_PAREN"
          \/ lower_precedence(top, t)
       THEN end_of_token(push_operator(cs, t), ntokens)
       ELSE [cs EXCEPT !.phase = "pop"]
  ELSE IF branch = "LEFT_PAREN" THEN end_of_token(push_operator(cs, t), ntokens)
  ELSE IF branch = "RIGHT_PAREN" \/ branch = "COMMA" THEN [cs EXCEPT !.phase = "pop_paren"]
  ELSE end_of_token(cs, ntokens)

\* One step of create_postfix_program on the infix tokens toks
compile_step(cs0, toks, output_type, g) ==
  LET cs == [cs0 EXCEPT !.lowered = NoLowering]
      t == toks[cs.n + 1]
      top == last(cs.operator_stack)
  IN IF lowers_top(cs, t, top) THEN output_op_or_function(cs, top, g)
     ELSE CASE cs.phase = "loop" -> loop_step(cs, t, top, Len(toks), branch_of(t))
            [] cs.phase = "pop" -> end_of_token(push_operator(cs, t), Len(toks))
            [] cs.phase = "pop_paren" ->
                 IF cs.operator_stack = <<>>
                 THEN [cs EXCEPT !.phase = "aborted"]
                 ELSE end_of_token(IF t.type = "RIGHT_PAREN"
                                   THEN [cs EXCEPT !.operator_stack = discard_last(@)]
                                   ELSE cs, Len(toks))
            [] cs.phase = "rest" -> [cs EXCEPT !.phase = "final"]
            [] cs.phase = "final" -> final_coercion(cs, output_type, g)

compile_running(cs) == cs.phase \in {"loop", "pop", "pop_paren", "rest", "final"}

\* whether the step of cs reads stack_type below its buffer, so that the
\* outcome g matters
reads_below(cs, toks) ==
  LET below(arity) ==
        /\ arity > Len(cs.stack_type)
        /\ arity > Len(cs.stack_type) + 1 \/ cs.below = "unwritten"
  IN \/ /\ cs.phase \in {"pop", "pop_paren", "rest"}
        /\ lowers_top(cs, toks[cs.n + 1], last(cs.operator_stack))
        /\ below(lowering_arity(last(cs.operator_stack)))
     \/ cs.phase = "final" /\ cs.stack_type = <<>> /\ cs.below = "unwritten"

\* create_postfix_program run to its end in a build that aborts on a failed
\* assertion
RECURSIVE create_postfix_program(_, _, _)
create_postfix_program(cs, toks, output_type) ==
  IF compile_running(cs)
  THEN create_postfix_program(compile_step(cs, toks, output_type, "abort"), toks, output_type)
  ELSE cs

(***************************************************************************)
(* Arithmetic of execute_program on 32-bit words.  An int is computed      *)
(* exactly while it stays below 2^30 in size, a float while it is an       *)
(* integer below 2^24 in size; Untracked stands for any other result (the  *)
(* model does not follow its value).                                       *)
(***************************************************************************)
Abs(n) == IF n < 0 THEN -n ELSE n

Sign(n) == IF n > 0 THEN 1 ELSE IF n < 0 THEN -1 ELSE 0

TrackedInt(a) == a # Untracked /\ a > -Pow2(30) /\ a < Pow2(30)

IntOf(n) == IF Abs(n) < Pow2(30) THEN n ELSE Untracked

FloatOf(n) == IF Abs(n) < Pow2(24) THEN FloatBits(n) ELSE Untracked

BoolWord(p) == IF p THEN 1 ELSE 0

Small(n) == Abs(n) < Pow2(12)

\* a / b and a % b of C (truncation toward zero), b # 0
CDiv(a, b) == Sign(a) * Sign(b) * (Abs(a) \div Abs(b))
CMod(a, b) == Sign(a) * (Abs(a) % Abs(b))

\* a^b for b >= 0; Untracked once it leaves the tracked range
RECURSIVE IPow(_, _)
IPow(a, b) ==
  IF b = 0 THEN 1
  ELSE IF Abs(a) <= 1 THEN (IF a = -1 /\ b % 2 = 0 THEN 1 ELSE a)
  ELSE IF b > 24 \/ Abs(a) >= Pow2(7) THEN Untracked
  ELSE LET r == IPow(a, b - 1)
       IN IF r = Untracked \/ Abs(r) >= Pow2(17) THEN Untracked ELSE r * a

\* the operations on ints
iadd(a, b) == IF TrackedInt(a) /\ TrackedInt(b) THEN IntOf(a + b) ELSE Untracked
isub(a, b) == IF TrackedInt(a) /\ TrackedInt(b) THEN IntOf(a - b) ELSE Untracked
imul(a, b) ==
  IF a = 0 \/ b = 0 THEN 0
  ELSE IF TrackedInt(a) /\ TrackedInt(b) /\ Small(a) /\ Small(b) THEN a * b
  ELSE Untracked
idiv(a, b) ==
  IF b = 0 THEN 0
  ELSE IF TrackedInt(a) /\ TrackedInt(b) THEN CDiv(a, b) ELSE Untracked
imod(a, b) ==
  IF b = 0 THEN 0
  ELSE IF TrackedInt(a) /\ TrackedInt(b) THEN CMod(a, b) ELSE Untracked
\* (int)pow(arg1, arg2)
ipow(a, b) ==
  IF ~(TrackedInt(a) /\ TrackedInt(b)) THEN Untracked
  ELSE IF b >= 0 THEN (LET r == IPow(a, b) IN IF r = Untracked THEN r ELSE IntOf(r))
  ELSE IF a = 0 THEN Untracked
  ELSE IF Abs(a) = 1 THEN IPow(a, -b)
  ELSE 0
icmp(op, a, b) ==
  IF ~(TrackedInt(a) /\ TrackedInt(b)) THEN Untracked
  ELSE BoolWord(CASE op = "==" -> a = b
                  [] op = "!=" -> a # b
                  [] op = ">" -> a > b
                  [] op = ">=" -> a >= b
                  [] op = "<" -> a < b
                  [] op = "<=" -> a <= b
                  [] op = "&&" -> a # 0 /\ b # 0
                  [] op = "||" -> a # 0 \/ b # 0)

\* the operations on floats
fneg(w) ==
  IF w = Untracked THEN Untracked
  ELSE IF w < 0 THEN (w + Pow2(30)) + Pow2(30) ELSE (w - Pow2(30)) - Pow2(30)
fabs(w) == IF w = Untracked THEN Untracked ELSE FloatMagnitude(w)
fzero(w) == w # Untracked /\ FloatMagnitude(w) = 0
fadd(a, b) ==
  IF IsIntFloat(a) /\ IsIntFloat(b) THEN FloatOf(FloatInt(a) + FloatInt(b)) ELSE Untracked
fsub(a, b) ==
  IF IsIntFloat(a) /\ IsIntFloat(b) THEN FloatOf(FloatInt(a) - FloatInt(b)) ELSE Untracked
fmul(a, b) ==
  IF IsIntFloat(a) /\ IsIntFloat(b) /\ Small(FloatInt(a)) /\ Small(FloatInt(b))
  THEN FloatOf(FloatInt(a) * FloatInt(b))
  ELSE Untracked
\* arg1 / arg2 of IEEE-754
fdiv(a, b) ==
  IF fzero(b)
  THEN IF fzero(a) THEN NaNBits
       ELSE IF IsIntFloat(a) /\ b = 0
       THEN (IF FloatInt(a) > 0 THEN InfBits ELSE fneg(InfBits))
       ELSE Untracked
  ELSE IF IsIntFloat(a) /\ IsIntFloat(b) /\ FloatInt(a) % Abs(FloatInt(b)) = 0 /\ a # 0
  THEN FloatOf(CDiv(FloatInt(a), FloatInt(b)))
  ELSE IF a = 0 /\ IsIntFloat(b) THEN (IF FloatInt(b) > 0 THEN 0 ELSE fneg(0))
  ELSE Untracked
\* fmodf(arg1, arg2), arg2 # 0
fmod(a, b) ==
  IF IsIntFloat(a) /\ IsIntFloat(b) /\ FloatInt(a) >= 0
  THEN FloatOf(CMod(FloatInt(a), FloatInt(b)))
  ELSE IF IsIntFloat(a) /\ IsIntFloat(b) /\ CMod(FloatInt(a), FloatInt(b)) # 0
  THEN FloatOf(CMod(FloatInt(a), FloatInt(b)))
  ELSE IF IsIntFloat(a) /\ IsIntFloat(b) THEN fneg(0)
  ELSE Untracked
fpow(a, b) ==
  IF ~(IsIntFloat(a) /\ IsIntFloat(b)) THEN Untracked
  ELSE IF FloatInt(b) >= 0
  THEN (LET r == IPow(FloatInt(a), FloatInt(b)) IN IF r = Untracked THEN r ELSE FloatOf(r))
  ELSE IF Abs(FloatInt(a)) = 1 THEN FloatOf(IPow(FloatInt(a), -FloatInt(b)))
  ELSE Untracked
fcmp(op, a, b) ==
  IF ~(IsIntFloat(a) /\ IsIntFloat(b)) THEN Untracked
  ELSE icmp(op, FloatInt(a), FloatInt(b))
fmax(a, b) ==
  IF ~(IsIntFloat(a) /\ IsIntFloat(b)) THEN Untracked
  ELSE IF FloatInt(a) > FloatInt(b) THEN a ELSE b
fmin(a, b) ==
  IF ~(IsIntFloat(a) /\ IsIntFloat(b)) THEN Untracked
  ELSE IF FloatInt(a) < FloatInt(b) THEN a ELSE b
\* functions that leave an integer-valued float as it is (ceilf, floorf, ...)
fwhole(a) == IF IsIntFloat(a) THEN a ELSE Untracked
\* compare_ff(a, b, max_diff): fabsf(a - b) <= max_diff
compare_ff(a, b, max_diff) ==
  IF IsIntFloat(a) /\ IsIntFloat(b) /\ IsIntFloat(max_diff)
  THEN BoolWord(Abs(FloatInt(a) - FloatInt(b)) <= FloatInt(max_diff))
  ELSE Untracked
\* (float)i and (int)f
int_to_float(i) == IF TrackedInt(i) THEN FloatOf(i) ELSE Untracked
float_to_int(f) == IF IsIntFloat(f) THEN FloatInt(f) ELSE Untracked
\* a condition of C on an int
truthy(c, a, b) == IF c = Untracked THEN Untracked ELSE IF c # 0 THEN a ELSE b
band(a, b) ==
  IF a = 0 \/ b = 0 THEN 0 ELSE IF a = Untracked \/ b = Untracked THEN Untracked ELSE 1

(***************************************************************************)
(* The values of the inputs: inputs[t.value].get<T>(index) for the rows    *)
(* index = 0 and index = 1 (a vector is <<x, y, z>>).                      *)
(***************************************************************************)
input_names == << <<"f">>, <<"i">>, <<"b">>, <<"v">>, <<"x">> >>
input_types == <<"SOCK_FLOAT", "SOCK_INT", "SOCK_BOOLEAN", "SOCK_VECTOR", "SOCK_FLOAT">>

inputs ==
  << <<FloatBits(5), 2, TRUE, <<FloatBits(1), FloatBits(2), FloatBits(3)>>, FloatBits(3)>>,
     <<0, 0, FALSE, <<0, FloatBits(-4), FloatBits(7)>>, FloatBits(-2)>> >>

Rows == 0..(Len(inputs) - 1)

\* sockets an expression can be evaluated to
OutputTypes == {"SOCK_FLOAT", "SOCK_INT", "SOCK_BOOLEAN", "SOCK_VECTOR"}

(***************************************************************************)
(* What each case of the switch in execute_program computes: the words it  *)
(* pushes (or stores with a replace call) from the words in that its stack *)
(* calls returned, in the order of the calls (a vector is three words x,   *)
(* y, z; pop_two_* return arg1, then arg2).                                *)
(***************************************************************************)
Map2(F(_, _), a, b) == [k \in 1..Len(a) |-> F(a[k], b[k])]
Scale(F(_, _), a, s) == [k \in 1..Len(a) |-> F(a[k], s)]
Vec(in, k) == SubSeq(in, k, k + 2)
Dot(a, b) == fadd(fadd(fmul(a[1], b[1]), fmul(a[2], b[2])), fmul(a[3], b[3]))

compare_op(type) ==
  CASE type \in {"OPERATOR_EQUAL", "OPERATOR_EQUAL_INT", "OPERATOR_EQUAL_VEC"} -> "=="
    [] type \in {"OPERATOR_NOT_EQUAL", "OPERATOR_NOT_EQUAL_INT", "OPERATOR_NOT_EQUAL_VEC"} -> "!="
    [] type \in {"OPERATOR_GREATER", "OPERATOR_GREATER_INT"} -> ">"
    [] type \in {"OPERATOR_GREATER_EQUAL", "OPERATOR_GREATER_EQUAL_INT"} -> ">="
    [] type \in {"OPERATOR_LESS", "OPERATOR_LESS_INT"} -> "<"
    [] type \in {"OPERATOR_LESS_EQUAL", "OPERATOR_LESS_EQUAL_INT"} -> "<="
    [] type = "OPERATOR_AND" -> "&&"
    [] type = "OPERATOR_OR" -> "||"

result(t, in, index) ==
  LET type == t.type
      a == in[1]
      b == in[2]
      input == inputs[index + 1][t.value + 1]
  IN CASE type \in {"CONSTANT_FLOAT", "CONSTANT_INT"} -> <<t.value>>
       [] type \in {"VARIABLE_FLOAT", "VARIABLE_INT"} -> <<input>>
       [] type = "VARIABLE_BOOL" -> <<IF input THEN 1 ELSE 0>>
       [] type = "VARIABLE_VEC" -> input
       [] type = "OPERATOR_PLUS" -> <<fadd(a, b)>>
       [] type = "OPERATOR_PLUS_INT" -> <<iadd(a, b)>>
       [] type = "OPERATOR_PLUS_VEC" -> Map2(fadd, Vec(in, 1), Vec(in, 4))
       [] type = "OPERATOR_MINUS" -> <<fsub(a, b)>>
       [] type = "OPERATOR_MINUS_INT" -> <<isub(a, b)>>
       [] type = "OPERATOR_MINUS_VEC" -> Map2(fsub, Vec(in, 1), Vec(in, 4))
       [] type = "OPERATOR_MULTIPLY" -> <<fmul(a, b)>>
       [] type = "OPERATOR_MULTIPLY_INT" -> <<imul(a, b)>>
       \* pop_vector() gave arg2, then pop_float() gave arg1
       [] type = "OPERATOR_MULTIPLY_FLOAT_VEC" -> Scale(fmul, Vec(in, 1), in[4])
       \* pop_float() gave arg2, then pop_vector() gave arg1
       [] type = "OPERATOR_MULTIPLY_VEC_FLOAT" -> Scale(fmul, Vec(in, 2), in[1])
       [] type = "OPERATOR_DIVIDE" -> <<IF fzero(b) THEN 0 ELSE fdiv(a, b)>>
       [] type = "OPERATOR_DIVIDE_INT" -> <<idiv(a, b)>>
       [] type = "OPERATOR_DIVIDE_VEC_FLOAT" -> Scale(fdiv, Vec(in, 2), in[1])
       [] type \in {"OPERATOR_POWER", "FUNCTION_POW"} -> <<fpow(a, b)>>
       [] type = "OPERATOR_POWER_INT" -> <<ipow(a, b)>>
       [] type = "OPERATOR_MODULO" -> <<IF fzero(b) THEN 0 ELSE fmod(a, b)>>
       [] type = "OPERATOR_MODULO_INT" -> <<imod(a, b)>>
       [] type \in {"OPERATOR_EQUAL", "OPERATOR_NOT_EQUAL", "OPERATOR_GREATER",
                    "OPERATOR_GREATER_EQUAL", "OPERATOR_LESS", "OPERATOR_LESS_EQUAL"} ->
            <<fcmp(compare_op(type), a, b)>>
       [] type \in {"OPERATOR_EQUAL_INT", "OPERATOR_NOT_EQUAL_INT", "OPERATOR_GREATER_INT",
                    "OPERATOR_GREATER_EQUAL_INT", "OPERATOR_LESS_INT",
                    "OPERATOR_LESS_EQUAL_INT", "OPERATOR_AND", "OPERATOR_OR"} ->
            <<icmp(compare_op(type), a, b)>>
       [] type = "OPERATOR_EQUAL_VEC" ->
            <<band(band(fcmp("==", in[1], in[4]), fcmp("==", in[2], in[5])),
                   fcmp("==", in[3], in[6]))>>
       [] type = "OPERATOR_NOT_EQUAL_VEC" ->
            <<icmp("==", band(band(fcmp("==", in[1], in[4]), fcmp("==", in[2], in[5])),
                              fcmp("==", in[3], in[6])), 0)>>
       [] type = "OPERATOR_UNARY_MINUS" -> <<fneg(a)>>
       [] type \in {"OPERATOR_UNARY_NOT", "FUNCTION_NOT"} -> <<icmp("==", a, 0)>>
       [] type = "OPERATOR_UNARY_MINUS_INT" -> <<isub(0, a)>>
       [] type = "OPERATOR_UNARY_MINUS_VEC" -> [k \in 1..3 |-> fneg(in[k])]
       [] type = "OPERATOR_GET_MEMBER_VEC" -> <<a>>
       [] type \in {"FUNCTION_COSINE", "FUNCTION_SINE", "FUNCTION_TANGENT", "FUNCTION_ASIN",
                    "FUNCTION_ACOS", "FUNCTION_ATAN", "FUNCTION_ATAN2",
                    "FUNCTION_SQUARE_ROOT", "FUNCTION_TO_RADIANS", "FUNCTION_TO_DEGREES",
                    "FUNCTION_LOG", "FUNCTION_LN", "FUNCTION_EXP", "FUNCTION_LENGTH"} ->
            <<Untracked>>
       [] type = "FUNCTION_MAX" -> <<fmax(a, b)>>
       [] type = "FUNCTION_MAX_INT" -> <<truthy(icmp(">", a, b), a, b)>>
       [] type = "FUNCTION_MIN" -> <<fmin(a, b)>>
       [] type = "FUNCTION_MIN_INT" -> <<truthy(icmp("<", a, b), a, b)>>
       [] type = "FUNCTION_ABS" -> <<fabs(a)>>
       [] type = "FUNCTION_ABS_INT" -> <<IF TrackedInt(a) THEN Abs(a) ELSE Untracked>>
       [] type = "FUNCTION_SIGN" -> <<IF IsIntFloat(a) THEN Sign(FloatInt(a)) ELSE Untracked>>
       [] type = "FUNCTION_SIGN_INT" -> <<IF TrackedInt(a) THEN Sign(a) ELSE Untracked>>
       \* false_val, true_val and cond were popped in this order
       [] type \in {"FUNCTION_IF", "FUNCTION_IF_INT"} -> <<truthy(in[3], in[2], in[1])>>
       [] type = "FUNCTION_IF_VEC" ->
            [k \in 1..3 |-> truthy(in[7], Vec(in, 4)[k], Vec(in, 1)[k])]
       [] type \in {"FUNCTION_CEIL", "FUNCTION_FLOOR", "FUNCTION_ROUND",
                    "FUNCTION_TRUNCATE"} -> <<fwhole(a)>>
       [] type = "FUNCTION_FRAC" -> <<IF IsIntFloat(a) THEN 0 ELSE Untracked>>
       \* epsilon was popped first
       [] type = "FUNCTION_COMPARE" -> <<compare_ff(in[2], in[3], in[1])>>
       [] type = "FUNCTION_COMPARE_VEC" ->
            <<band(band(compare_ff(in[2], in[5], in[1]), compare_ff(in[3], in[6], in[1])),
                   compare_ff(in[4], in[7], in[1]))>>
       [] type = "FUNCTION_DOT" -> <<Dot(Vec(in, 1), Vec(in, 4))>>
       [] type = "FUNCTION_CROSS" ->
            <<fsub(fmul(in[2], in[6]), fmul(in[3], in[5])),
              fsub(fmul(in[3], in[4]), fmul(in[1], in[6])),
              fsub(fmul(in[1], in[5]), fmul(in[2], in[4]))>>
       [] type = "FUNCTION_NORMALIZE" -> <<Untracked, Untracked, Untracked>>
       [] type = "FUNCTION_LENGTH2" -> <<Dot(Vec(in, 1), Vec(in, 1))>>
       [] type = "CONVERT_INT_FLOAT" -> <<int_to_float(a)>>
       [] type = "CONVERT_FLOAT_INT" -> <<float_to_int(a)>>
       [] OTHER -> <<>>

(***************************************************************************)
(* RuntimeStack.  The state of an execution is the record                  *)
(*   [i, top_idx, stack, under, lo, hi, mismatch, outside, in, ret]        *)
(* stack holds the cells stack[0 .. top_idx]; a cell is the word it holds  *)
(* and the kind ("float" or "int") it was last written as.  under is the   *)
(* memory just below stack[0], which the code reaches once top_idx is      *)
(* below -1; a read of memory that was never written returns the word gw.  *)
(* lo and hi are the least and greatest value top_idx has taken, mismatch  *)
(* whether a cell was read as another kind than it was last written as (or *)
(* was never written), outside whether an access left stack[0 ..           *)
(* MAX_STACK - 1]; in collects the words the calls of one case returned;   *)
(* ret is the output_variant that execute_program returned.                *)
(***************************************************************************)
Unwritten == [bits |-> 0, kind |-> "unwritten"]

RuntimeStack ==
  [i |-> 0, top_idx |-> -1, stack |-> <<>>, under |-> Unwritten, lo |-> -1, hi |-> -1,
   mismatch |-> FALSE, outside |-> FALSE, in |-> <<>>,
   ret |-> [type |-> "none", value |-> <<>>]]

Min(a, b) == IF a < b THEN a ELSE b
Max(a, b) == IF a > b THEN a ELSE b

cell_at(r, idx) ==
  IF idx >= 0 /\ idx < Len(r.stack) THEN r.stack[idx + 1]
  ELSE IF idx = -1 THEN r.under
  ELSE Unwritten

\* a read of stack[idx] as kind
load(r, idx, kind, gw) ==
  LET cell == cell_at(r, idx)
  IN [r EXCEPT !.in = Append(@, IF cell.kind = "unwritten" THEN gw ELSE cell.bits),
               !.mismatch = @ \/ cell.kind # kind,
               !.outside = @ \/ idx < 0 \/ idx >= MAX_STACK]

\* a write of stack[idx] as kind
store(r, idx, bits, kind) ==
  LET cell == [bits |-> bits, kind |-> kind]
  IN [r EXCEPT !.stack = IF idx >= 0 /\ idx < Len(@) THEN [@ EXCEPT ![idx + 1] = cell]
                         ELSE IF idx = Len(@) THEN Append(@, cell)
                         ELSE @,
               !.under = IF idx = -1 THEN cell ELSE @,
               !.outside = @ \/ idx < 0 \/ idx >= MAX_STACK]

\* top_idx = idx; the cells above it are dead
set_top(r, idx) ==
  [r EXCEPT !.top_idx = idx, !.lo = Min(@, idx), !.hi = Max(@, idx),
            !.stack = IF idx + 1 < Len(@) THEN SubSeq(@, 1, Max(idx + 1, 0)) ELSE @]

push_float(r, val) == set_top(store(r, r.top_idx + 1, val, "float"), r.top_idx + 1)

push_int(r, val) == set_top(store(r, r.top_idx + 1, val, "int"), r.top_idx + 1)

push_vector(r, val) == push_float(push_float(push_float(r, val[1]), val[2]), val[3])

pop_float(r, gw) == set_top(load(r, r.top_idx, "float", gw), r.top_idx - 1)

pop_int(r, gw) == set_top(load(r, r.top_idx, "int", gw), r.top_idx - 1)

pop_vector(r, gw) ==
  LET top == r.top_idx - 3
  IN set_top(load(load(load(r, top + 1, "float", gw), top + 2, "float", gw),
                  top + 3, "float", gw), top)

pop_two_floats(r, gw) ==
  LET top == r.top_idx - 2
  IN set_top(load(load(r, top + 1, "float", gw), top + 2, "float", gw), top)

pop_two_ints(r, gw) ==
  LET top == r.top_idx - 2
  IN set_top(load(load(r, top + 1, "int", gw), top + 2, "int", gw), top)

pop_two_vectors(r, gw) ==
  LET top == r.top_idx - 6
      first == load(load(load(r, top + 1, "float", gw), top + 2, "float", gw),
                    top + 3, "float", gw)
  IN set_top(load(load(load(first, top + 4, "float", gw), top + 5, "float", gw),
                  top + 6, "float", gw), top)

peek_int(r, offset, gw) == load(r, r.top_idx - offset, "int", gw)

peek_float(r, offset, gw) == load(r, r.top_idx - offset, "float", gw)

replace_float(r, val, offset) == store(r, r.top_idx - offset, val, "float")

replace_int(r, val, offset) == store(r, r.top_idx - offset, val, "int")

discard(r, amount) == set_top(r, r.top_idx - amount)

EX(type, calls) == [type |-> type, calls |-> calls]

execute_cases ==
  << EX("CONSTANT_FLOAT", <<"push_float(res)">>),
     EX("CONSTANT_INT", <<"push_int(res)">>),
     EX("VARIABLE_FLOAT", <<"push_float(res)">>),
     EX("VARIABLE_INT", <<"push_int(res)">>),
     EX("VARIABLE_BOOL", <<"push_int(res)">>),
     EX("VARIABLE_VEC", <<"push_vector(res)">>),
     EX("OPERATOR_PLUS", <<"pop_two_floats()", "push_float(res)">>),
     EX("OPERATOR_PLUS_INT", <<"pop_two_ints()", "push_int(res)">>),
     EX("OPERATOR_PLUS_VEC", <<"pop_two_vectors()", "push_vector(res)">>),
     EX("OPERATOR_MINUS", <<"pop_two_floats()", "push_float(res)">>),
     EX("OPERATOR_MINUS_INT", <<"pop_two_ints()", "push_int(res)">>),
     EX("OPERATOR_MINUS_VEC", <<"pop_two_vectors()", "push_vector(res)">>),
     EX("OPERATOR_MULTIPLY", <<"pop_two_floats()", "push_float(res)">>),
     EX("OPERATOR_MULTIPLY_INT", <<"pop_two_ints()", "push_int(res)">>),
     EX("OPERATOR_MULTIPLY_FLOAT_VEC", <<"pop_vector()", "pop_float()", "push_vector(res)">>),
     EX("OPERATOR_MULTIPLY_VEC_FLOAT", <<"pop_float()", "pop_vector()", "push_vector(res)">>),
     EX("OPERATOR_DIVIDE", <<"pop_two_floats()", "push_float(res)">>),
     EX("OPERATOR_DIVIDE_INT", <<"pop_two_ints()", "push_int(res)">>),
     EX("OPERATOR_DIVIDE_VEC_FLOAT", <<"pop_float()", "pop_vector()", "push_vector(res)">>),
     EX("OPERATOR_POWER", <<"pop_two_floats()", "push_float(res)">>),
     EX("OPERATOR_POWER_INT", <<"pop_two_ints()", "push_int(res)">>),
     EX("OPERATOR_MODULO", <<"pop_two_floats()", "push_float(res)">>),
     EX("OPERATOR_MODULO_INT", <<"pop_two_ints()", "push_int(res)">>),
     EX("OPERATOR_EQUAL", <<"pop_two_floats()", "push_int(res)">>),
     EX("OPERATOR_EQUAL_INT", <<"pop_two_ints()", "push_int(res)">>),
     EX("OPERATOR_EQUAL_VEC", <<"pop_two_vectors()", "push_int(res)">>),
     EX("OPERATOR_NOT_EQUAL", <<"pop_two_floats()", "push_int(res)">>),
     EX("OPERATOR_NOT_EQUAL_INT", <<"pop_two_ints()", "push_int(res)">>),
     EX("OPERATOR_NOT_EQUAL_VEC", <<"pop_two_vectors()", "push_int(res)">>),
     EX("OPERATOR_GREATER", <<"pop_two_floats()", "push_int(res)">>),
     EX("OPERATOR_GREATER_INT", <<"pop_two_ints()", "push_int(res)">>),
     EX("OPERATOR_GREATER_EQUAL", <<"pop_two_floats()", "push_int(res)">>),
     EX("OPERATOR_GREATER_EQUAL_INT", <<"pop_two_ints()", "push_int(res)">>),
     EX("OPERATOR_LESS", <<"pop_two_floats()", "push_int(res)">>),
     EX("OPERATOR_LESS_INT", <<"pop_two_ints()", "push_int(res)">>),
     EX("OPERATOR_LESS_EQUAL", <<"pop_two_floats()", "push_int(res)">>),
     EX("OPERATOR_LESS_EQUAL_INT", <<"pop_two_ints()", "push_int(res)">>),
     EX("OPERATOR_AND", <<"pop_two_ints()", "push_int(res)">>),
     EX("OPERATOR_OR", <<"pop_two_ints()", "push_int(res)">>),
     EX("OPERATOR_UNARY_MINUS", <<"pop_float()", "push_float(res)">>),
     EX("OPERATOR_UNARY_NOT", <<"pop_int()", "push_int(res)">>),
     EX("OPERATOR_UNARY_MINUS_INT", <<"pop_int()", "push_int(res)">>),
     EX("OPERATOR_UNARY_MINUS_VEC", <<"pop_vector()", "push_vector(res)">>),
     EX("OPERATOR_GET_MEMBER_VEC", <<"peek_float(t.value)", "discard(3)", "push_float(res)">>),
     EX("FUNCTION_COSINE", <<"pop_float()", "push_float(res)">>),
     EX("FUNCTION_SINE", <<"pop_float()", "push_float(res)">>),
     EX("FUNCTION_TANGENT", <<"pop_float()", "push_float(res)">>),
     EX("FUNCTION_ASIN", <<"pop_float()", "push_float(res)">>),
     EX("FUNCTION_ACOS", <<"pop_float()", "push_float(res)">>),
     EX("FUNCTION_ATAN", <<"pop_float()", "push_float(res)">>),
     EX("FUNCTION_ATAN2", <<"pop_two_floats()", "push_float(res)">>),
     EX("FUNCTION_SQUARE_ROOT", <<"pop_float()", "push_float(res)">>),
     EX("FUNCTION_MAX", <<"pop_two_floats()", "push_float(res)">>),
     EX("FUNCTION_MAX_INT", <<"pop_two_ints()", "push_int(res)">>),
     EX("FUNCTION_MIN", <<"pop_two_floats()", "push_float(res)">>),
     EX("FUNCTION_MIN_INT", <<"pop_two_ints()", "push_int(res)">>),
     EX("FUNCTION_ABS", <<"peek_float()", "replace_float(res)">>),
     EX("FUNCTION_ABS_INT", <<"peek_int()", "replace_int(res)">>),
     EX("FUNCTION_SIGN", <<"peek_float()", "replace_int(res)">>),
     EX("FUNCTION_SIGN_INT", <<"peek_int()", "replace_int(res)">>),
     EX("FUNCTION_TO_RADIANS", <<"peek_float()", "replace_float(res)">>),
     EX("FUNCTION_TO_DEGREES", <<"peek_float()", "replace_float(res)">>),
     EX("FUNCTION_NOT", <<"pop_int()", "push_int(res)">>),
     EX("FUNCTION_LOG", <<"pop_two_floats()", "push_float(res)">>),
     EX("FUNCTION_LN", <<"pop_float()", "push_float(res)">>),
     EX("FUNCTION_POW", <<"pop_two_floats()", "push_float(res)">>),
     EX("FUNCTION_EXP", <<"pop_float()", "push_float(res)">>),
     EX("FUNCTION_IF", <<"pop_float()", "pop_float()", "pop_int()", "push_float(res)">>),
     EX("FUNCTION_IF_INT", <<"pop_int()", "pop_int()", "pop_int()", "push_int(res)">>),
     EX("FUNCTION_IF_VEC", <<"pop_vector()", "pop_vector()", "pop_int()", "push_vector(res)">>),
     EX("FUNCTION_CEIL", <<"pop_float()", "push_float(res)">>),
     EX("FUNCTION_FLOOR", <<"pop_float()", "push_float(res)">>),
     EX("FUNCTION_FRAC", <<"pop_float()", "push_float(res)">>),
     EX("FUNCTION_ROUND", <<"pop_float()", "push_float(res)">>),
     EX("FUNCTION_TRUNCATE", <<"pop_float()", "push_float(res)">>),
     EX("FUNCTION_COMPARE", <<"pop_float()", "pop_two_floats()", "push_int(res)">>),
     EX("FUNCTION_COMPARE_VEC", <<"pop_float()", "pop_two_vectors()", "push_int(res)">>),
     EX("FUNCTION_DOT", <<"pop_two_vectors()", "push_float(res)">>),
     EX("FUNCTION_CROSS", <<"pop_two_vectors()", "push_vector(res)">>),
     EX("FUNCTION_NORMALIZE", <<"pop_vector()", "push_vector(res)">>),
     EX("FUNCTION_LENGTH", <<"pop_vector()", "push_float(res)">>),
     EX("FUNCTION_LENGTH2", <<"pop_vector()", "push_float(res)">>),
     EX("CONVERT_INT_FLOAT", <<"peek_int(offset)", "replace_float(res, offset)">>),
     EX("CONVERT_FLOAT_INT", <<"peek_float(offset)", "replace_int(res, offset)">>),
     EX("FUNCTION_VECTOR", <<>>),
     EX("LEFT_PAREN", <<>>),
     EX("RIGHT_PAREN", <<>>),
     EX("COMMA", <<>>),
     EX("NONE", <<>>) >>

\* the calls of the case of type
case_calls(type) ==
  execute_cases[CHOOSE k \in 1..Len(execute_cases) : execute_cases[k].type = type].calls

\* one call on the stack in the case of token t; res is the value the case
\* computes from the words its calls have returned so far
stack_call(r, call, t, res, gw) ==
  CASE call = "push_float(res)" -> push_float(r, res[1])
    [] call = "push_int(res)" -> push_int(r, res[1])
    [] call = "push_vector(res)" -> push_vector(r, res)
    [] call = "pop_float()" -> pop_float(r, gw)
    [] call = "pop_int()" -> pop_int(r, gw)
    [] call = "pop_vector()" -> pop_vector(r, gw)
    [] call = "pop_two_floats()" -> pop_two_floats(r, gw)
    [] call = "pop_two_ints()" -> pop_two_ints(r, gw)
    [] call = "pop_two_vectors()" -> pop_two_vectors(r, gw)
    [] call = "peek_int()" -> peek_int(r, 0, gw)
    [] call = "peek_int(offset)" -> peek_int(r, t.value, gw)
    [] call = "peek_float()" -> peek_float(r, 0, gw)
    [] call \in {"peek_float(offset)", "peek_float(t.value)"} -> peek_float(r, t.value, gw)
    [] call = "replace_float(res)" -> replace_float(r, res[1], 0)
    [] call = "replace_float(res, offset)" -> replace_float(r, res[1], t.value)
    [] call = "replace_int(res)" -> replace_int(r, res[1], 0)
    [] call = "replace_int(res, offset)" -> replace_int(r, res[1], t.value)
    [] call = "discard(3)" -> discard(r, 3)

\* the calls on the stack in the case of token t for row index
RECURSIVE stack_calls(_, _, _, _, _)
stack_calls(r, calls, t, index, gw) ==
  IF calls = <<>> THEN r
  ELSE stack_calls(stack_call(r, Head(calls), t, result(t, r.in, index), gw),
                   Tail(calls), t, index, gw)

\* one iteration of the loop of execute_program: the case of program.at(i)
execute_token(r, program, index, gw) ==
  LET case(t) ==
        [stack_calls([r EXCEPT !.in = <<>>], case_calls(t.type), t, index, gw)
           EXCEPT !.i = @ + 1, !.in = <<>>]
  IN case(program[r.i + 1])

\* the result extraction that ends execute_program
output_variant(r, output_type, gw) ==
  LET s == IF output_type = "SOCK_FLOAT" THEN pop_float(r, gw)
           ELSE IF output_type = "SOCK_INT" \/ output_type = "SOCK_BOOLEAN" THEN pop_int(r, gw)
           ELSE pop_vector(r, gw)
  IN [s EXCEPT !.in = <<>>,
               !.ret = IF output_type = "SOCK_FLOAT" THEN [type |-> "float", value |-> s.in]
                       ELSE IF output_type = "SOCK_INT" THEN [type |-> "int", value |-> s.in]
                       ELSE IF output_type = "SOCK_BOOLEAN"
                       THEN [type |-> "bool", value |-> <<icmp("!=", s.in[1], 0)>>]
                       ELSE [type |-> "float3", value |-> s.in]]

\* the loop of execute_program from program.at(r.i) on
RECURSIVE execute_tokens(_, _, _, _)
execute_tokens(r, program, index, gw) ==
  IF r.i < Len(program)
  THEN execute_tokens(execute_token(r, program, index, gw), program, index, gw)
  ELSE r

\* execute_program of a valid program for row index, run on its own
execute_program(program, index, output_type, gw) ==
  output_variant(execute_tokens(RuntimeStack, program, index, gw), output_type, gw)


(***************************************************************************)
(* The names of the items of the node (NOD_geo_expression.hh).  A name is  *)
(* the sequence of the codes of its characters; a char is a code modulo    *)
(* CharRange.                                                              *)
(***************************************************************************)
CharRange == 256
UpperA == 65
UpperZ == 90
LowerA == 97
LowerZ == 122
Digit0 == 48
MaxNumber == 99999

\* the string that a buffer holds: its bytes before the first '\0'
RECURSIVE c_str(_)
c_str(buffer) ==
  IF buffer = <<>> \/ buffer[1] = 0 THEN <<>> ELSE <<buffer[1]>> \o c_str(Tail(buffer))

strlen(name) == Len(name)

is_digit(code) == code >= Digit0 /\ code < Digit0 + 10

\* no item of the node has the name new_name
is_unique_name(items, new_name) ==
  \A k \in 1..Len(items) : items[k] # new_name

\* new_char++ and the two wraps at the end of the alphabets
next_character(new_char) ==
  LET wrap_upper(c) == IF c = UpperZ + 1 THEN UpperA ELSE c
      wrap_lower(c) == IF c = LowerZ + 1 THEN LowerA ELSE c
  IN wrap_lower(wrap_upper((new_char + 1) % CharRange))

\* the number of characters of base_name before its trailing digits
digits_start(base_name) ==
  CHOOSE n \in 0..Len(base_name) :
    /\ \A k \in (n + 1)..Len(base_name) : is_digit(base_name[k])
    /\ n = 0 \/ ~is_digit(base_name[n])

RECURSIVE atoi(_)
atoi(digits) ==
  IF digits = <<>> THEN 0
  ELSE atoi(SubSeq(digits, 1, Len(digits) - 1)) * 10 + (digits[Len(digits)] - Digit0)

RECURSIVE itoa(_)
itoa(i) ==
  IF i < 10 THEN <<Digit0 + i>> ELSE itoa(i \div 10) \o <<Digit0 + (i % 10)>>

\* the call of get_new_unique_name: where it is, its argument and its locals
NoRename ==
  [at |-> "none", item_index |-> 0, base_name |-> <<>>, first_char |-> 0, new_char |-> 0,
   i |-> 0, num_buf |-> 0, new_name |-> <<>>]

\* get_new_unique_name up to its do loop
get_new_unique_name(u, base_name) ==
  LET start == digits_start(base_name)
      number == IF start # Len(base_name)
                THEN atoi(SubSeq(base_name, start + 1, Len(base_name))) ELSE 0
  IN IF strlen(base_name) = 1
     THEN [u EXCEPT !.at = "next_character", !.base_name = base_name,
                    !.first_char = base_name[1], !.new_char = base_name[1]]
     ELSE [u EXCEPT !.at = "next_number", !.base_name = base_name,
                    !.num_buf = start,
                    !.i = IF number >= MaxNumber THEN 0 ELSE number]

\* one iteration of the do loop over the characters
character_loop(u, items) ==
  LET found(new_char, new_name) ==
        [u EXCEPT !.new_char = new_char, !.new_name = new_name,
                  !.at = IF ~is_unique_name(items, new_name) /\ new_char # u.first_char
                         THEN "next_character" ELSE "return"]
      named(new_char) == found(new_char, c_str(<<new_char, 0>>))
  IN named(next_character(u.new_char))

\* one iteration of the do loop over the numbers
number_loop(u, items) ==
  LET found(i, new_name) ==
        [u EXCEPT !.i = i, !.new_name = new_name,
                  !.at = IF ~is_unique_name(items, new_name) /\ i < MaxNumber
                         THEN "next_number" ELSE "return"]
      named(i) == found(i, SubSeq(u.base_name, 1, u.num_buf) \o itoa(i))
  IN named(u.i + 1)
(***************************************************************************)
(* The expressions and output sockets the node is created with             *)
(***************************************************************************)
MaxSrcLen == 3
MaxNest == 12

Alphabet == {"f", "(", ")", ",", "-", "1", " ", "^"}

RECURSIVE Strings(_)
Strings(n) ==
  IF n = 0 THEN {<<>>}
  ELSE LET shorter == Strings(n - 1)
       IN shorter \cup {Append(s, c) : s \in {x \in shorter : Len(x) = n - 1}, c \in Alphabet}

Operands == { <<"f">>, <<"i">>, <<"b">>, <<"v">>, <<"2">>, <<"0">> }
Variables == { <<"f">>, <<"i">>, <<"b">>, <<"v">> }
Kinds3 == { <<"f">>, <<"i">>, <<"v">> }

BinaryOps ==
  { <<"+">>, <<"-">>, <<"*">>, <<"/">>, <<"^">>, <<"%">>, <<"=", "=">>, <<"!", "=">>,
    <<">">>, <<">", "=">>, <<"<">>, <<"<", "=">>, <<"&", "&">>, <<"|", "|">> }
UnaryOps == { <<"-">>, <<"!">> }

Functions1 ==
  { <<"s","q","r","t">>, <<"s","i","n">>, <<"c","o","s">>, <<"t","a","n">>,
    <<"a","s","i","n">>, <<"a","c","o","s">>, <<"a","t","a","n">>, <<"a","b","s">>,
    <<"s","i","g","n">>, <<"t","o","r","a","d","i","a","n","s">>,
    <<"t","o","d","e","g","r","e","e","s">>, <<"n","o","t">>, <<"l","n">>, <<"e","x","p">>,
    <<"c","e","i","l">>, <<"f","l","o","o","r">>, <<"f","r","a","c">>,
    <<"r","o","u","n","d">>, <<"t","r","u","n","c">>, <<"n","o","r","m","a","l","i","z","e">>,
    <<"l","e","n","g","t","h">>, <<"l","e","n","g","t","h","2">> }
Functions2 ==
  { <<"a","t","a","n","2">>, <<"m","a","x">>, <<"m","i","n">>, <<"l","o","g">>,
    <<"p","o","w">>, <<"d","o","t">>, <<"c","r","o","s","s">> }
Functions3 == { <<"i","f">>, <<"c","o","m","p","a","r","e">>, <<"v","e","c">> }

Call1(fn, a) == fn \o <<"(">> \o a \o <<")">>
Call2(fn, a, b) == fn \o <<"(">> \o a \o <<",">> \o b \o <<")">>
Call3(fn, a, b, c) == fn \o <<"(">> \o a \o <<",">> \o b \o <<",">> \o c \o <<")">>

\* core wrapped n times in  open ... close
RECURSIVE Nest(_, _, _, _)
Nest(open, close, core, n) ==
  IF n = 0 THEN core ELSE open \o Nest(open, close, core, n - 1) \o close

\* an expression that holds eight cells while its last operand is evaluated
DeepOpen == <<"i", "f", "(", "i", ",", "v", ",", "v", "+", "f", "*">>
DeepClose == <<")">>
\* operands of 3, 4 and 5 cells
DeepCores ==
  { <<"v">>,
    <<"(", "f", "*", "v", ")">>,
    <<"(", "f", "*", "(", "f", "*", "v", ")", ")">> }

\* the two expressions of the precedence examples, each as written and with
\* the parentheses it is equivalent to
Sum3(a, b, c) == a \o <<" ", "+", " ">> \o b \o <<" ", "*", " ">> \o c
Sum3Paren(a, b, c) == a \o <<" ", "+", " ", "(">> \o b \o <<" ", "*", " ">> \o c \o <<")">>
Eq4(a, b, c, d) ==
  a \o <<" ", "=", "=", " ">> \o b \o <<" ", "&", "&", " ">> \o c \o <<" ", "=", "=", " ">> \o d
Eq4Paren(a, b, c, d) ==
  <<"(">> \o a \o <<" ", "=", "=", " ">> \o b \o <<")", " ", "&", "&", " ", "(">> \o c
          \o <<" ", "=", "=", " ">> \o d \o <<")">>

PrecedencePairs ==
       {<<Sum3(a, b, c), Sum3Paren(a, b, c)>> : a \in Variables, b \in Variables, c \in Variables}
  \cup {<<Eq4(a, b, c, d), Eq4Paren(a, b, c, d)>> :
          a \in Variables, b \in Variables, c \in Variables, d \in Variables}

\* calls with too few and too many arguments
ArityErrors ==
  { <<"m", "a", "x", "(", "f", ")">>, <<"m", "a", "x", "(", "f", ",", "f", ",", "f", ")">>,
    <<"s", "i", "n", "(", "f", ",", "f", ")">>, <<"s", "i", "n", "(", ")">>,
    <<"i", "f", "(", "b", ",", "f", ")">>,
    <<"i", "f", "(", "b", ",", "f", ",", "f", ",", "f", ")">> }

\* a vector rebuilt from its members
VecOfMembers ==
  <<"v", "e", "c", "(", "v", ".", "x", ",", "v", ".", "y", ",", "v", ".", "z", ")">>

\* the binary operators whose operands cannot be exchanged, each applied to a
\* literal and an input in both orders
OrderedOps ==
  { <<"-">>, <<"/">>, <<"%">>, <<"^">>, <<"<">>, <<"<", "=">>, <<">">>, <<">", "=">> }
OrderedSources ==
  {a \o op \o b : op \in OrderedOps,
                  a \in { <<"6">>, <<"i">>, <<"x">> }, b \in { <<"6">>, <<"i">>, <<"x">> }}

\* if(c, a, b) with different values for a and b, for each of its variants
IfInt == <<"i", "f", "(", "b", ",", "i", ",", "6", ")">>
IfFloat == <<"i", "f", "(", "b", ",", "f", ",", "6", ")">>
IfVec == <<"i", "f", "(", "b", ",", "v", ",", "v", "*", "2", ")">>
IfGreater == <<"i", "f", "(", "i", ">", "6", ",", "i", ",", "6", ")">>

\* identifiers that are not the name of an input, alone and as an operand
UnknownNames ==
  { <<"q">>, <<"f", "i">>, <<"F">>, <<"_">>, <<"i", "n", "f">>, <<"n", "a", "n">>,
    <<"i", "n", "f", "i", "n", "i", "t", "y">>, <<"i", "n", "f", "o">> }
UnknownNameSources ==
  UnknownNames \cup {<<"f", "+">> \o name : name \in UnknownNames}
               \cup {name \o <<"*", "2">> : name \in UnknownNames}
               \cup { <<"p", "i">>, <<"T", "a", "U">>, <<"x", " ", "+", " ", "b">> }

\* integer literals around the largest int
IntLiterals ==
  { <<"2", "1", "4", "7", "4", "8", "3", "6", "4", "7">>,
    <<"2", "1", "4", "7", "4", "8", "3", "6", "4", "8">>,
    <<"4", "2", "9", "4", "9", "6", "7", "2", "9", "6">>,
    <<"0", "0", "0", "0", "0", "0", "0", "0", "0", "0", "7">>,
    <<"9", "9", "9", "9", "9", "9", "9", "9", "9", "9", "9">>,
    <<"1", "6", "7", "7", "7", "2", "1", "6">> }

\* a member of v as the right operand of each binary operator, and negated
MemberOperands == {<<"f">> \o op \o <<"v", ".", "x">> : op \in BinaryOps}
NegatedMember == <<"-", "v", ".", "x">>

\* two comparisons joined by ||, for every pair of comparison operators
Comparisons ==
  { <<"=", "=">>, <<"!", "=">>, <<">">>, <<">", "=">>, <<"<">>, <<"<", "=">> }
OrOfComparisons ==
  {<<"i">> \o c1 \o <<"6", "|", "|", "f">> \o c2 \o <<"x">> :
     c1 \in Comparisons, c2 \in Comparisons}

\* the spelling of a function with and without a parenthesis after it
SinCall == <<"s", "i", "n", "(", "f", ")">>
SinSpaceCall == <<"s", "i", "n", " ", "(", "f", ")">>
SpaceSinCall == <<" ", "S", "i", "n", "(", "f", ")">>
SinAlone == { <<"s", "i", "n">>, <<"s", "i", "n", "+", "f">>, <<"s", "i", "n", " ">>,
              <<"s", "i", "n", "+", "(", "f", ")">>, <<"f", "+", "s", "i", "n">> }

\* a op1 b op2 c for every two binary operators of equal precedence
EqualPrecedence ==
  { { <<"+">>, <<"-">> }, { <<"*">>, <<"/">>, <<"%">> }, { <<"^">> },
    { <<"=", "=">>, <<"!", "=">> }, { <<">">>, <<">", "=">>, <<"<">>, <<"<", "=">> },
    { <<"&", "&">> }, { <<"|", "|">> } }
ChainOperands == { <<"f", "f", "f">>, <<"i", "i", "i">>, <<"f", "i", "x">>, <<"7", "3", "2">> }
Chains ==
  UNION {{<<o[1]>> \o op1 \o <<o[2]>> \o op2 \o <<o[3]>> :
            o \in ChainOperands, op1 \in group, op2 \in group} : group \in EqualPrecedence}

Examples ==
  { VecOfMembers, IfInt, IfFloat, IfVec, IfGreater } \cup OrderedSources \cup UnknownNameSources
     \cup IntLiterals
     \cup { <<"7", "-", "3", "-", "2">>, <<"7", "/", "3", "*", "2">>,
            <<"2", "^", "3", "^", "2">>, <<"-", "3", "^", "2">> }

FullSources ==
       {a \o op \o b : a \in Operands, op \in BinaryOps, b \in Operands}
  \cup {u \o a : u \in UnaryOps, a \in Operands}
  \cup {Call1(fn, a) : fn \in Functions1, a \in Variables}
  \cup {Call2(fn, a, b) : fn \in Functions2, a \in Variables, b \in Variables}
  \cup {Call3(fn, a, b, c) : fn \in Functions3, a \in Variables, b \in Variables,
                             c \in Variables}
  \cup { <<"-", "x", "^", "2">>, <<"v", ".", "x">>, <<"v", ".", "y">>, <<"v", ".", "z">> }
  \cup Examples

FloatSources ==
       Strings(MaxSrcLen)
  \cup {a \o op \o u \o b : a \in Kinds3, op \in BinaryOps, u \in UnaryOps, b \in Kinds3}
  \cup {pair[1] : pair \in PrecedencePairs} \cup {pair[2] : pair \in PrecedencePairs}
  \cup ArityErrors
  \cup MemberOperands \cup {NegatedMember}
  \cup OrOfComparisons
  \cup Chains
  \cup {SinSpaceCall, SpaceSinCall} \cup SinAlone
  \cup {a \o op \o b \o <<"^">> \o u \o c :
          a \in Kinds3, op \in { <<"+">>, <<"*">> }, b \in Kinds3, u \in UnaryOps, c \in Kinds3}
  \cup {Nest(DeepOpen, DeepClose, core, n) : core \in DeepCores, n \in (MaxNest - 1)..MaxNest}

\* node_geo_exec does nothing when the Expression is empty: create_program is
\* called with an expression of at least one character
Cases ==
  {case \in (FullSources \X OutputTypes) \cup (FloatSources \X {"SOCK_FLOAT"}) :
     Len(case[1]) # 0}

(***************************************************************************)
(* The node: create_program (the parse, then create_postfix_program step   *)
(* by step) and one call of execute_program                                *)
(***************************************************************************)
VARIABLES expression, output_type_, input_names_, input_types_, pc, parser, compile, program_valid_, error_msg,
          index, run, concurrent, socket_items, unique_name

vars == <<expression, output_type_, input_names_, input_types_, pc, parser, compile, program_valid_, error_msg,
          index, run, concurrent, socket_items, unique_name>>

\* a second call of execute_program on the same program, from another thread:
\* its position, its row and its RuntimeStack
NoCall == [pc |-> "none", index |-> 0, run |-> RuntimeStack]

\* a pointer to a list of the caller, and the pointer to nothing
pointer_to(list) == <<list>>
nullptr == <<>>

Init ==
  /\ \E case \in Cases : expression = case[1] /\ output_type_ = case[2]
  /\ input_names_ = pointer_to(input_names)
  /\ input_types_ = pointer_to(input_types)
  /\ pc = "parse"
  /\ parser = parse_begin
  /\ compile = CompileInit
  /\ program_valid_ = FALSE
  /\ error_msg = <<>>
  /\ index = 0
  /\ run = RuntimeStack
  /\ concurrent = NoCall
  /\ socket_items = <<>>
  /\ unique_name = NoRename

\* the message create_program builds from a parse error
parse_error_msg(p) ==
  LET chars_after_error == Len(expression) - p.error_pos_
      at_end == chars_after_error = 0 /\ p.error_pos_ > 0
      error_pos == IF at_end THEN p.error_pos_ - 1 ELSE p.error_pos_
  IN <<p.error_msg_, "\n",
       substr(expression, error_pos, IF at_end THEN 1 ELSE chars_after_error)>>

parse_context == [input_names_ |-> input_names, input_types_ |-> input_types]

\* one step of the parse that create_program starts and, when parse returns
\* false, the error report and the end of create_program; a function that
\* flows off its end is read as having returned either value
Parse ==
  /\ pc = "parse"
  /\ \E p \in {parse_step(expression,
                           [input_names_ |-> input_names_[1], input_types_ |-> input_types_[1]],
                           parser, g) : g \in BOOLEAN} :
       /\ parser' = p
       /\ pc' = IF parse_running(p) THEN pc
                ELSE IF p.ret THEN "create_postfix_program" ELSE "created"
       /\ error_msg' = IF parse_running(p) \/ p.ret THEN error_msg ELSE parse_error_msg(p)
       /\ input_names_' = IF parse_running(p) \/ p.ret THEN input_names_ ELSE nullptr
       /\ input_types_' = IF parse_running(p) \/ p.ret THEN input_types_ ELSE nullptr
  /\ program_valid_' = FALSE
  /\ UNCHANGED <<socket_items, unique_name, expression, output_type_, compile, index, run, concurrent>>

\* what a read below the buffer of stack_type can give
BelowOutcomes == {"abort"} \cup eValueType

\* one step of create_postfix_program and, when it returns, the end of
\* create_program
CompileStep ==
  /\ pc = "create_postfix_program"
  /\ \E cs \in {compile_step(compile, parser.output, output_type_, g) :
                   g \in IF reads_below(compile, parser.output) THEN BelowOutcomes
                         ELSE {"abort"}} :
       /\ compile' = cs
       /\ pc' = IF compile_running(cs) THEN pc
                ELSE IF cs.phase = "aborted" THEN "aborted" ELSE "created"
       /\ program_valid_' = (cs.phase = "ok")
       /\ error_msg' = cs.error_msg
       /\ input_names_' = IF cs.phase \in {"ok", "failed"} THEN nullptr ELSE input_names_
       /\ input_types_' = IF cs.phase \in {"ok", "failed"} THEN nullptr ELSE input_types_
  /\ UNCHANGED <<socket_items, unique_name, expression, output_type_, parser, index, run, concurrent>>

\* the start of execute_program for one row
Execute ==
  /\ pc = "created"
  /\ IF program_valid_
     THEN /\ index' \in Rows
          /\ pc' = "execute_program"
          /\ run' = RuntimeStack
     ELSE /\ index' = index
          /\ pc' = "returned"
          /\ run' = [RuntimeStack EXCEPT !.ret = [type |-> "int", value |-> <<0>>]]
  /\ UNCHANGED <<socket_items, unique_name, expression, output_type_, input_names_, input_types_, parser, compile,
                 program_valid_, error_msg,
                 concurrent>>

\* words a read of memory that was never written can give
GarbageWords == {0, FloatBits(1), NaNBits}

\* one iteration of the loop of execute_program
ExecuteToken ==
  /\ pc = "execute_program"
  /\ run.i < Len(compile.output)
  /\ \E gw \in IF compile.corrupt THEN GarbageWords ELSE {0} :
       run' = execute_token(run, compile.output, index, gw)
  /\ UNCHANGED <<socket_items, unique_name, expression, output_type_, input_names_, input_types_, pc, parser, compile,
                 program_valid_, error_msg,
                 index, concurrent>>

\* the end of execute_program
ExtractResult ==
  /\ pc = "execute_program"
  /\ run.i = Len(compile.output)
  /\ \E gw \in IF compile.corrupt THEN GarbageWords ELSE {0} :
       run' = output_variant(run, output_type_, gw)
  /\ pc' = "returned"
  /\ UNCHANGED <<socket_items, unique_name, expression, output_type_, input_names_, input_types_, parser, compile,
                 program_valid_, error_msg,
                 index, concurrent>>

Next == Parse \/ CompileStep \/ Execute \/ ExecuteToken \/ ExtractResult

Spec == Init /\ [][Next]_vars

(***************************************************************************)
(* The renaming of the item that node_insert_link has added: socket_items  *)
(* are the names of the items of the node and unique_name is the call of   *)
(* get_new_unique_name.                                                    *)
(***************************************************************************)
Printable ==
  <<" ", "!", "quote", "#", "$", "%", "&", "'", "(", ")", "*", "+", ",", "-", ".", "/",
    "0", "1", "2", "3", "4", "5", "6", "7", "8", "9", ":", ";", "<", "=", ">", "?",
    "@", "A", "B", "C", "D", "E", "F", "G", "H", "I", "J", "K", "L", "M", "N", "O",
    "P", "Q", "R", "S", "T", "U", "V", "W", "X", "Y", "Z", "[", "backslash", "]", "^", "_",
    "backtick", "a", "b", "c", "d", "e", "f", "g", "h", "i", "j", "k", "l", "m", "n", "o",
    "p", "q", "r", "s", "t", "u", "v", "w", "x", "y", "z", "{", "|", "}", "~">>

\* the code of a printable character (the double quote, the backslash and the
\* backtick are spelled out in Printable), and the name that text spells
code(ch) == (CHOOSE k \in 1..Len(Printable) : Printable[k] = ch) + 31
Name(text) == [k \in 1..Len(text) |-> code(text[k])]

\* n items named by the n characters from first on
Row(first, n) == [k \in 1..n |-> <<first + k - 1>>]

Value == Name(<<"V", "a", "l", "u", "e">>)

\* the items of a node after a link has added the item at item_index
InsertCases ==
       {[items |-> <<<<c>>, Value>>, item_index |-> 1] : c \in 32..126}
  \cup {[items |-> Row(LowerA, n) \o <<Value>>, item_index |-> n] : n \in 0..26}
  \cup {[items |-> Row(UpperA, 26) \o <<Name(<<"@">>), Value>>, item_index |-> 27],
        [items |-> Row(LowerA, 26) \o <<<<LowerA - 1>>, Value>>, item_index |-> 27],
        [items |-> Row(UpperA, 26) \o <<Name(<<"9">>), Value>>, item_index |-> 27],
        [items |-> <<Name(<<"x">>), Name(<<"y">>)>>, item_index |-> 1],
        [items |-> <<Name(<<"b">>), Name(<<"c">>), Name(<<"a">>), Value>>, item_index |-> 3],
        [items |-> <<Name(<<"Y">>), Name(<<"A">>), Name(<<"Z">>), Value>>, item_index |-> 3],
        [items |-> <<Name(<<"i", "n">>), Value>>, item_index |-> 1],
        [items |-> <<Value, Value>>, item_index |-> 1],
        [items |-> <<Name(<<"a", "2">>), Name(<<"a", "3">>), Name(<<"a", "1">>), Value>>,
         item_index |-> 3],
        [items |-> <<Name(<<"a", "9", "9", "9", "9", "9">>),
                     Name(<<"a", "9", "9", "9", "9", "8">>), Value>>, item_index |-> 2],
        [items |-> <<Name(<<"a", "9", "9", "9", "9", "9">>), Value>>, item_index |-> 1],
        [items |-> <<Name(<<"a", "0", "0", "7">>), Value>>, item_index |-> 1]}

InitNames ==
  /\ expression = <<>> /\ output_type_ = "SOCK_FLOAT"
  /\ input_names_ = nullptr /\ input_types_ = nullptr
  /\ pc = "node_insert_link"
  /\ parser = parse_begin
  /\ compile = CompileInit
  /\ program_valid_ = FALSE
  /\ error_msg = <<>>
  /\ index = 0
  /\ run = RuntimeStack
  /\ concurrent = NoCall
  /\ \E case \in InsertCases :
       /\ socket_items = case.items
       /\ unique_name = [NoRename EXCEPT !.at = "node_insert_link",
                                         !.item_index = case.item_index]

\* node_insert_link from the test of the name of the added item on, up to the
\* call of get_new_unique_name
NodeInsertLink ==
  /\ unique_name.at = "node_insert_link"
  /\ IF strlen(socket_items[unique_name.item_index + 1]) = 1
     THEN unique_name' = [unique_name EXCEPT !.at = "done"] /\ UNCHANGED socket_items
     ELSE IF unique_name.item_index = 0
     THEN /\ unique_name' = [unique_name EXCEPT !.at = "done", !.new_name = Name(<<"x">>)]
          /\ socket_items' = [socket_items EXCEPT ![1] = Name(<<"x">>)]
     ELSE /\ unique_name' = [unique_name EXCEPT
                               !.at = "get_new_unique_name",
                               !.base_name = socket_items[unique_name.item_index]]
          /\ UNCHANGED socket_items
  /\ UNCHANGED <<expression, output_type_, input_names_, input_types_, pc, parser, compile,
                 program_valid_, error_msg, index, run, concurrent>>

\* get_new_unique_name up to its do loop
GetNewUniqueName ==
  /\ unique_name.at = "get_new_unique_name"
  /\ unique_name' = get_new_unique_name(unique_name, unique_name.base_name)
  /\ UNCHANGED <<expression, output_type_, input_names_, input_types_, pc, parser, compile,
                 program_valid_, error_msg, index, run, concurrent, socket_items>>

\* one iteration of the do loop of the one-character names
NextCharacter ==
  /\ unique_name.at = "next_character"
  /\ unique_name' = character_loop(unique_name, socket_items)
  /\ UNCHANGED <<expression, output_type_, input_names_, input_types_, pc, parser, compile,
                 program_valid_, error_msg, index, run, concurrent, socket_items>>

\* one iteration of the do loop of the numbered names
NextNumber ==
  /\ unique_name.at = "next_number"
  /\ unique_name' = number_loop(unique_name, socket_items)
  /\ UNCHANGED <<expression, output_type_, input_names_, input_types_, pc, parser, compile,
                 program_valid_, error_msg, index, run, concurrent, socket_items>>

\* node_insert_link after get_new_unique_name has returned: the added item
\* gets the name
Rename ==
  /\ unique_name.at = "return"
  /\ socket_items' = [socket_items EXCEPT ![unique_name.item_index + 1] =
                                            unique_name.new_name]
  /\ unique_name' = [unique_name EXCEPT !.at = "done"]
  /\ UNCHANGED <<expression, output_type_, input_names_, input_types_, pc, parser, compile,
                 program_valid_, error_msg, index, run, concurrent>>

NextNames == NodeInsertLink \/ GetNewUniqueName \/ NextCharacter \/ NextNumber \/ Rename

\* the loops of get_new_unique_name run on: the function is not preempted for
\* ever
SpecNames == InitNames /\ [][NextNames]_vars /\ WF_vars(NextNames)

(***************************************************************************)
(* Two calls of execute_program on one program, as the threads of          *)
(* ExpressionEvaluateFunction::call make them: each call has its own row   *)
(* and its own RuntimeStack, both read program_buffer_, and their          *)
(* iterations interleave in any order.                                     *)
(***************************************************************************)
\* the start of two calls of execute_program for two rows
ExecuteBoth ==
  /\ pc = "created"
  /\ program_valid_
  /\ \E first \in Rows, second \in Rows :
       /\ first # second
       /\ index' = first
       /\ concurrent' = [pc |-> "execute_program", index |-> second, run |-> RuntimeStack]
  /\ pc' = "execute_program"
  /\ run' = RuntimeStack
  /\ UNCHANGED <<socket_items, unique_name, expression, output_type_, input_names_, input_types_, parser, compile,
                 program_valid_, error_msg>>

\* one iteration of the loop of the second call if the RuntimeStack were one
\* object that the calls share
ConcurrentTokenSharedStack ==
  /\ concurrent.pc = "execute_program"
  /\ concurrent.run.i < Len(compile.output)
  /\ \E gw \in IF compile.corrupt THEN GarbageWords ELSE {0} :
       \E done \in {execute_token([run EXCEPT !.i = concurrent.run.i], compile.output,
                                   concurrent.index, gw)} :
         /\ concurrent' = [concurrent EXCEPT !.run = done]
         /\ run' = [done EXCEPT !.i = run.i]
  /\ UNCHANGED <<socket_items, unique_name, expression, output_type_, input_names_, input_types_, pc, parser, compile,
                 program_valid_, error_msg,
                 index>>

\* one iteration of the loop of the second call
ConcurrentToken ==
  /\ concurrent.pc = "execute_program"
  /\ concurrent.run.i < Len(compile.output)
  /\ \E gw \in IF compile.corrupt THEN GarbageWords ELSE {0} :
       concurrent' = [concurrent EXCEPT
                        !.run = execute_token(@, compile.output, concurrent.index, gw)]
  /\ UNCHANGED <<socket_items, unique_name, expression, output_type_, input_names_, input_types_, pc, parser, compile,
                 program_valid_, error_msg,
                 index, run>>

\* the end of the second call
ConcurrentResult ==
  /\ concurrent.pc = "execute_program"
  /\ concurrent.run.i = Len(compile.output)
  /\ \E gw \in IF compile.corrupt THEN GarbageWords ELSE {0} :
       concurrent' = [concurrent EXCEPT !.run = output_variant(@, output_type_, gw),
                                        !.pc = "returned"]
  /\ UNCHANGED <<socket_items, unique_name, expression, output_type_, input_names_, input_types_, pc, parser, compile,
                 program_valid_, error_msg,
                 index, run>>

NextConcurrent ==
  \/ Parse \/ CompileStep \/ ExecuteBoth
  \/ ExecuteToken \/ ExtractResult \/ ConcurrentToken \/ ConcurrentResult

SpecConcurrent == Init /\ [][NextConcurrent]_vars
(***************************************************************************)
(* Properties                                                              *)
(***************************************************************************)
Terminal == pc = "returned" \/ pc = "aborted"

\* the step just taken lowered an operator or function and emitted a variant
Lowered == compile.lowered.specialized_op # "NONE"

\* the kinds token_info declares for the arguments of a typed variant
declared_args(variant, arity) == [k \in 1..arity |-> arg_type(variant, k)]

\* C1: whenever create_postfix_program lowers an operator or function, the
\* type stack holds at least as many entries as its arity, and the kinds of
\* the top entries, after the inserted CONVERT_INT_FLOAT tokens, are the
\* argument kinds token_info declares for the emitted variant.
C1_LoweringMeetsSignature ==
  Lowered =>
    /\ compile.lowered.depth >= compile.lowered.arity
    /\ compile.lowered.args =
         declared_args(compile.lowered.specialized_op, compile.lowered.arity)

\* the same for the lowerings that found their operands on the type stack
LoweringWithOperandsMeetsSignature ==
  Lowered /\ compile.lowered.depth >= compile.lowered.arity =>
    compile.lowered.args =
      declared_args(compile.lowered.specialized_op, compile.lowered.arity)

\* C2: executing a compiled program, every read of a cell (by an opcode or
\* by the result extraction) is of the kind the cell was last written as.
C2_ReadsMatchWrites ==
  program_valid_ => ~run.mismatch

\* the same for the programs whose compilation stayed inside the type stack
SoundWhenCompiledInBounds ==
  program_valid_ /\ ~compile.corrupt => ~run.mismatch

output_cells == IF output_type_ = "SOCK_VECTOR" THEN 3 ELSE 1

AllTokensExecuted == pc = "execute_program" /\ run.i = Len(compile.output)

\* C3: for a program that compiles, the type stack holds one entry when the
\* loops of create_postfix_program have ended, the runtime stack holds 1
\* cell (3 for a vector output) once every token has been executed, and
\* top_idx is -1 after the result has been popped.
C3_StackBalance ==
  /\ compile.phase \in {"final", "ok"} => Len(compile.stack_type) = 1
  /\ AllTokensExecuted => run.top_idx + 1 = output_cells
  /\ pc = "returned" /\ program_valid_ => run.top_idx = -1

C3_Witness ==
  /\ pc = "returned" /\ program_valid_
  /\ output_type_ = "SOCK_VECTOR"
  /\ run.ret.type = "float3"
  /\ Len(compile.output) > 3

\* C4: while a compiled program executes, top_idx stays within
\* -1 .. MAX_STACK - 1; and a cell count above MAX_STACK after an infix
\* token makes the compilation fail with the stack space error.
C4_StackWithinBounds ==
  /\ program_valid_ => run.lo >= -1 /\ run.hi <= MAX_STACK - 1
  /\ compile.stack_size > MAX_STACK =>
       /\ compile.phase = "failed"
       /\ compile.error_msg = <<"Expression uses too much stack space">>
       /\ (pc = "created" \/ pc = "returned") /\ ~program_valid_

\* the two halves for the programs whose compilation stayed inside the type
\* stack
StackWithinBoundsWhenCompiledInBounds ==
  /\ program_valid_ /\ ~compile.corrupt =>
       run.lo >= -1 /\ run.hi <= MAX_STACK - 1 /\ ~run.outside
  /\ compile.stack_size > MAX_STACK =>
       /\ compile.phase = "failed"
       /\ compile.error_msg = <<"Expression uses too much stack space">>

FullStack == program_valid_ /\ run.hi = MAX_STACK - 1
StackTooDeep == compile.stack_size > MAX_STACK

\* the asserted accesses that the calls of well-formed token streams never make
AssertionsOutsideLowering ==
  compile.phase = "aborted" =>
    /\ compile.operator_stack # <<>>
    /\ lowering_arity(last(compile.operator_stack)) = Len(compile.stack_type) + 1

\* the expression written with the other parenthesisation, for the
\* expressions of the precedence examples
counterpart(source) ==
  LET pair == CHOOSE pair \in PrecedencePairs : pair[1] = source \/ pair[2] = source
  IN IF pair[1] = source THEN pair[2] ELSE pair[1]

IsPrecedenceExample == \E pair \in PrecedencePairs : pair[1] = expression \/ pair[2] = expression

\* create_program run on source for the output type of the node
compiled(source) ==
  LET p == parse(source, parse_context)
  IN IF p.ret THEN create_postfix_program(CompileInit, p.output, output_type_)
     ELSE [CompileInit EXCEPT !.phase = "failed"]

\* C5: `a + b * c` compiles to the postfix program of `a + (b * c)`, and
\* `a == b && c == d` to that of `(a == b) && (c == d)`, for every kind of
\* the variables for which the expression compiles.
C5_PrecedenceEquivalence ==
  pc = "created" /\ program_valid_ /\ IsPrecedenceExample =>
    LET other == compiled(counterpart(expression))
    IN other.phase = "ok" /\ other.output = compile.output

C5_Witness ==
  /\ pc = "created" /\ program_valid_
  /\ expression = Eq4(<<"f">>, <<"i">>, <<"v">>, <<"v">>)
  /\ Len(compile.output) > 7

MinusXSquared == <<"-", "x", "^", "2">>

NotConversion(t) == t.type # "CONVERT_INT_FLOAT" /\ t.type # "CONVERT_FLOAT_INT"

token_types(tokens) == [n \in 1..Len(tokens) |-> tokens[n].type]

MinusXSquaredIsMinusNine ==
  /\ program_valid_
  /\ token_types(SelectSeq(compile.output, NotConversion)) =
       <<"VARIABLE_FLOAT", "CONSTANT_INT", "OPERATOR_POWER", "OPERATOR_UNARY_MINUS">>
  /\ run.ret = [type |-> "float", value |-> <<fneg(FloatBits(9))>>]

\* C6: `-x^2` compiles to the postfix order x, 2, POWER, UNARY_MINUS and,
\* with x = 3 and a float output, evaluates to -9.
C6_PowerBindsTighter ==
  /\ expression = MinusXSquared /\ output_type_ = "SOCK_FLOAT"
  /\ pc = "returned" /\ index = 0
  => MinusXSquaredIsMinusNine

\* the same when parse_operand_or_unary's caller reads true where the function
\* flows off its end
MinusXSquaredWhenParsed ==
  /\ expression = MinusXSquared /\ output_type_ = "SOCK_FLOAT"
  /\ pc = "returned" /\ index = 0 /\ parser.ret
  => MinusXSquaredIsMinusNine

\* the number of cells between the top of the stack and argument k
cell_offset(args, k) == sum_stack_space(SubSeq(args, k + 1, Len(args)))

IntOnlyOps == {"OPERATOR_AND", "OPERATOR_OR", "OPERATOR_UNARY_NOT", "FUNCTION_NOT"}

\* C7: lowering emits no conversion but CONVERT_INT_FLOAT on an argument of
\* kind INT (never to or from VEC); CONVERT_FLOAT_INT is only ever the last
\* token of a program, put there by the output coercion; an operator that
\* takes only INT fails to compile when given a FLOAT.
C7_OnlyWideningIsImplicit ==
  LET low == compile.lowered
  IN /\ \A j \in 1..Len(low.added) :
          /\ low.added[j].type = "CONVERT_INT_FLOAT"
          /\ \E k \in 1..low.arity :
               /\ low.read[k] = "INT" /\ low.args[k] = "FLOAT"
               /\ low.added[j].value = cell_offset(low.args, k)
     /\ \A k \in 1..Len(low.args) :
          low.args[k] # low.read[k] => low.read[k] = "INT" /\ low.args[k] = "FLOAT"
     /\ low.specialized_op \notin {"CONVERT_INT_FLOAT", "CONVERT_FLOAT_INT"}
     /\ \A n \in 1..Len(compile.output) :
          compile.output[n].type = "CONVERT_FLOAT_INT" =>
            /\ n = Len(compile.output) /\ compile.phase = "ok"
            /\ output_type_ \in {"SOCK_INT", "SOCK_BOOLEAN"}
     /\ low.op \in IntOnlyOps /\ (\E k \in 1..Len(low.read) : low.read[k] = "FLOAT") =>
          low.specialized_op = "NONE" /\ compile.phase = "failed"

C7_Witness ==
  /\ program_valid_
  /\ compile.output[Len(compile.output)].type = "CONVERT_FLOAT_INT"
  /\ \E n \in 1..Len(compile.output) : compile.output[n].type = "CONVERT_INT_FLOAT"

IntOnlyGivenFloat ==
  /\ compile.lowered.op \in IntOnlyOps
  /\ \E k \in 1..Len(compile.lowered.read) : compile.lowered.read[k] = "FLOAT"

\* the variants overload resolution chooses from
variants(op) == {op} \cup {find_overloads(op)[k] : k \in 1..Len(find_overloads(op))}

\* the signature of variant is the kinds read, some of the INT widened to FLOAT
widens_to(read, variant) ==
  \A k \in 1..Len(read) :
    \/ arg_type(variant, k) = read[k]
    \/ read[k] = "INT" /\ arg_type(variant, k) = "FLOAT"

LoweringAttempted ==
  compile.lowered.op # "NONE" /\ compile.lowered.depth >= compile.lowered.arity

\* C8: when a variant of the operator or function being lowered has a
\* signature that the kinds of the arguments widen to, the lowering succeeds
\* and emits such a variant.
C8_ResolutionComplete ==
  LET low == compile.lowered
  IN LoweringAttempted /\ (\E v \in variants(low.op) : widens_to(low.read, v)) =>
       /\ low.specialized_op \in variants(low.op)
       /\ widens_to(low.read, low.specialized_op)

\* the same for the operators and functions of one and two arguments
ResolutionCompleteUpToTwoArguments ==
  LET low == compile.lowered
  IN /\ LoweringAttempted /\ low.arity <= 2
     /\ \E v \in variants(low.op) : widens_to(low.read, v)
     => /\ low.specialized_op \in variants(low.op)
        /\ widens_to(low.read, low.specialized_op)

\* what is emitted is always a variant the arguments widen to
ResolutionSound ==
  Lowered /\ LoweringAttempted =>
    /\ compile.lowered.specialized_op \in variants(compile.lowered.op)
    /\ widens_to(compile.lowered.read, compile.lowered.specialized_op)

ChangesRecordedError(w) ==
  w.old_msg # "" /\ (w.msg # w.old_msg \/ w.pos # w.old_pos)

\* C9: once an error is recorded during a parse, nothing later in that parse
\* changes or clears its message or position, so that parse() returns the
\* first error recorded.
C9_FirstErrorWins ==
  /\ \A n \in 1..Len(parser.writes) : ~ChangesRecordedError(parser.writes[n])
  /\ pc # "parse" /\ ~parser.ret /\ parser.writes # <<>> =>
       /\ parser.error_msg_ = parser.writes[1].msg
       /\ parser.error_pos_ = parser.writes[1].pos

\* C9 as the code has it: set_error_if_none never changes a recorded error; a
\* recorded error changes only by the assignments of parse_operand, which
\* clear the message left by the attempt to read a number (keeping its
\* position) or replace the error by "Unclosed parenthesis" at the
\* parenthesis; parse() returns what the last write left.
C9_FirstErrorWinsButForParseOperand ==
  /\ \A n \in 1..Len(parser.writes) :
       LET w == parser.writes[n]
       IN ChangesRecordedError(w) =>
            /\ w.how = "assign"
            /\ \/ w.msg = "" /\ w.old_msg = "Invalid number" /\ w.pos = w.old_pos
               \/ w.msg = "Unclosed parenthesis"
  /\ parser.writes # <<>> =>
       /\ parser.error_msg_ = parser.writes[Len(parser.writes)].msg
       /\ parser.error_pos_ = parser.writes[Len(parser.writes)].pos

C9_Witness ==
  /\ pc # "parse" /\ ~parser.ret
  /\ Len(parser.writes) >= 3
  /\ parser.error_msg_ = "Unclosed parenthesis"

\* C10: a parse that fails reports a message that is not empty and a
\* position within 0 .. length of the source.
C10_FailureHasMessageAndOffset ==
  pc # "parse" /\ ~parser.ret =>
    /\ parser.error_msg_ # ""
    /\ parser.error_pos_ >= 0 /\ parser.error_pos_ <= Len(expression)

\* the position alone
FailureOffsetWithinSource ==
  pc # "parse" /\ ~parser.ret =>
    parser.error_pos_ >= 0 /\ parser.error_pos_ <= Len(expression)

\* the message, for an expression that is not blank
FailureHasMessageUnlessBlank ==
  pc # "parse" /\ ~parser.ret /\ (\E n \in 1..Len(expression) : ~isspace(expression[n])) =>
    parser.error_msg_ # ""

(***************************************************************************)
(* Concurrent evaluation                                                   *)
(***************************************************************************)
\* what execute_program returns for row when no other call is running, in
\* a build where memory that was never written reads as 0
returned_alone(row) == execute_program(compile.output, row, output_type_, 0).ret

\* C11: two calls of execute_program on the same program for different rows,
\* with their iterations interleaved in any order, each return the value
\* that a call for the same row returns when it runs alone.
C11_ReentrantEvaluation ==
  /\ pc = "returned" /\ program_valid_ => run.ret = returned_alone(index)
  /\ concurrent.pc = "returned" => concurrent.run.ret = returned_alone(concurrent.index)

\* the second call has returned, with another value than the first call will
\* return, while the first call is in the middle of its loop
C11_Witness ==
  /\ concurrent.pc = "returned"
  /\ pc = "execute_program" /\ run.i > 0 /\ run.i < Len(compile.output)
  /\ concurrent.run.ret # returned_alone(index)
  /\ concurrent.run.ret = returned_alone(concurrent.index)

\* execute_program is const: no step of a call changes the program
ProgramImmutable ==
  [][(pc = "execute_program" \/ pc = "returned") =>
       output_type_' = output_type_ /\ program_valid_' = program_valid_ /\ compile' = compile]_vars

\* a call leaves its own RuntimeStack only in a program whose compilation
\* read below the type stack
OwnStackWhenCompiledInBounds ==
  program_valid_ /\ ~compile.corrupt => ~run.outside /\ ~concurrent.run.outside

(***************************************************************************)
(* Member access                                                           *)
(***************************************************************************)
\* the value of the input named by the one-character name, for the row of the
\* call
input_value(name) == inputs[index + 1][input_index(input_names, <<name>>) + 1]

Returned(source, output_type) ==
  expression = source /\ output_type_ = output_type /\ pc = "returned"

\* `v.x` is the first-pushed cell of v, `v.y` the second and `v.z` the top one
MemberSelectsCell ==
  \A k \in 1..3 :
    Returned(<<"v", ".", <<"x", "y", "z">>[k]>>, "SOCK_FLOAT") =>
      /\ program_valid_
      /\ compile.output = <<Token("VARIABLE_VEC", 3), Token("OPERATOR_GET_MEMBER_VEC", 3 - k)>>
      /\ run.ret = [type |-> "float", value |-> <<input_value("v")[k]>>]

VecOfMembersIsVec ==
  program_valid_ /\ run.ret = [type |-> "float3", value |-> input_value("v")]

\* C12: `vec(v.x, v.y, v.z)` with a vector output evaluates to v, and `.x`,
\* `.y`, `.z` select the first-pushed, the second and the top cell of v.
C12_MemberRoundTrip ==
  /\ MemberSelectsCell
  /\ Returned(VecOfMembers, "SOCK_VECTOR") => VecOfMembersIsVec

\* the same when parse_function's caller reads true where the function flows
\* off its end
MemberRoundTripWhenParsed ==
  /\ MemberSelectsCell
  /\ Returned(VecOfMembers, "SOCK_VECTOR") /\ parser.ret => VecOfMembersIsVec

MemberRoundTripReached ==
  Returned(VecOfMembers, "SOCK_VECTOR") /\ VecOfMembersIsVec /\ index = 1

(***************************************************************************)
(* Division and modulo by zero                                             *)
(***************************************************************************)
ScalarDivisionOps ==
  {"OPERATOR_DIVIDE", "OPERATOR_DIVIDE_INT", "OPERATOR_MODULO", "OPERATOR_MODULO_INT"}

DivisionOps == ScalarDivisionOps \cup {"OPERATOR_DIVIDE_VEC_FLOAT"}

\* the token the call is about to execute
next_token == compile.output[run.i + 1]

\* the cell on top of the stack of r, and the n cells on top of it
top_cell(r) == r.stack[r.top_idx + 1]
top_cells(r, n) == [k \in 1..n |-> r.stack[(r.top_idx + 1 - n) + k]]

\* the call is about to execute one of ops with a divisor of 0 (the divisor
\* is the operand on top of the stack)
DividesByZero(ops) ==
  /\ pc = "execute_program" /\ run.i < Len(compile.output)
  /\ next_token.type \in ops
  /\ ~compile.corrupt
  /\ IF top_cell(run).kind = "int" THEN top_cell(run).bits = 0 ELSE fzero(top_cell(run).bits)

\* the step executed a token and left n cells of 0 on top of the stack
PushesZero(n) ==
  /\ run'.i = run.i + 1
  /\ \A k \in 1..n : top_cells(run', n)[k].bits = 0

\* C13: executing any variant of `/` or `%` with a divisor of 0 pushes 0 (three
\* cells of 0 for the variant that divides a vector by a float).
C13_ZeroDivisorGivesZero ==
  [][DividesByZero(DivisionOps) => PushesZero(stack_space(result_type(next_token.type)))]_vars

\* the same for the variants with scalar operands
ScalarZeroDivisorGivesZero ==
  [][DividesByZero(ScalarDivisionOps) => PushesZero(1)]_vars

\* a float, an int and a vector division by zero are each about to happen
ZeroDivisorReached(op) == DividesByZero({op})


(***************************************************************************)
(* Argument order                                                          *)
(***************************************************************************)
\* what C gives for  a op b  on small positive integers, a being the left
\* operand (the comparisons give 1 or 0)
applied(op, a, b) ==
  CASE op = <<"-">> -> a - b
    [] op = <<"/">> -> a \div b
    [] op = <<"%">> -> a % b
    [] op = <<"^">> -> a ^ b
    [] op = <<"<">> -> BoolWord(a < b)
    [] op = <<"<", "=">> -> BoolWord(a <= b)
    [] op = <<">">> -> BoolWord(a > b)
    [] op = <<">", "=">> -> BoolWord(a >= b)

\* the operands of OrderedSources for row 0: the literal, the Int input i and
\* the Float input x
OrderedOperands == { <<"6">>, <<"i">>, <<"x">> }
operand_value(a) == IF a = <<"6">> THEN 6 ELSE IF a = <<"i">> THEN 2 ELSE 3

\* a op b is computed with a as the first argument: in int arithmetic when
\* neither operand is the Float input and in float arithmetic otherwise
\* (a float quotient with a fraction is not followed)
LeftOperandIsFirstArgument ==
  \A op \in OrderedOps, a \in OrderedOperands, b \in OrderedOperands :
    /\ Returned(a \o op \o b, "SOCK_INT") /\ index = 0 /\ a # <<"x">> /\ b # <<"x">> =>
         /\ program_valid_
         /\ run.ret = [type |-> "int",
                       value |-> <<applied(op, operand_value(a), operand_value(b))>>]
    /\ /\ Returned(a \o op \o b, "SOCK_FLOAT") /\ index = 0
       /\ op = <<"/">> => operand_value(a) % operand_value(b) = 0
       =>
         /\ program_valid_
         /\ run.ret = [type |-> "float",
                       value |-> <<FloatBits(applied(op, operand_value(a),
                                                      operand_value(b)))>>]

\* the value of if(c, a, b) for the row of the call: a when the Bool input b
\* is true and the other one otherwise
IfReturns(parsed) ==
  /\ Returned(IfInt, "SOCK_INT") /\ parsed =>
       /\ program_valid_
       /\ run.ret = [type |-> "int",
                     value |-> <<IF input_value("b") THEN input_value("i") ELSE 6>>]
  /\ Returned(IfFloat, "SOCK_FLOAT") /\ parsed =>
       /\ program_valid_
       /\ run.ret = [type |-> "float",
                     value |-> <<IF input_value("b") THEN input_value("f") ELSE FloatBits(6)>>]
  /\ Returned(IfVec, "SOCK_VECTOR") /\ parsed =>
       /\ program_valid_
       /\ run.ret = [type |-> "float3",
                     value |-> IF input_value("b") THEN input_value("v")
                               ELSE [k \in 1..3 |-> fmul(input_value("v")[k], FloatBits(2))]]
  /\ Returned(IfGreater, "SOCK_INT") /\ parsed =>
       /\ program_valid_
       /\ run.ret = [type |-> "int", value |-> <<6>>]

\* C14: for -, /, %, ^, <, <=, > and >= the operand written on the left is the
\* first argument of the operation the interpreter executes, and if(c, a, b)
\* returns a when c is not zero and b otherwise, for its Float, Int and Vec
\* variants (if(i > 6, i, 6) with i at most 2 returns 6).
C14_ArgumentOrder == LeftOperandIsFirstArgument /\ IfReturns(TRUE)

\* the same when parse_function's caller reads true where the function flows
\* off its end
ArgumentOrderWhenParsed == LeftOperandIsFirstArgument /\ IfReturns(parser.ret)

ArgumentOrderReached(source, output_type, row) ==
  Returned(source, output_type) /\ program_valid_ /\ index = row

(***************************************************************************)
(* Output coercion                                                         *)
(***************************************************************************)
\* the tokens that the end of compilation is to append for an expression of
\* kind top_type and an output socket of type output_type
coercion_tokens(top_type, output_type) ==
  CASE top_type = "INT" /\ output_type = "SOCK_FLOAT" -> <<Token("CONVERT_INT_FLOAT", 0)>>
    [] top_type = "INT" /\ output_type \in {"SOCK_INT", "SOCK_BOOLEAN"} -> <<>>
    [] top_type = "INT" /\ output_type = "SOCK_VECTOR" ->
         <<Token("CONVERT_INT_FLOAT", 0), Token("CONSTANT_FLOAT", 0), Token("CONSTANT_FLOAT", 0)>>
    [] top_type = "FLOAT" /\ output_type = "SOCK_FLOAT" -> <<>>
    [] top_type = "FLOAT" /\ output_type \in {"SOCK_INT", "SOCK_BOOLEAN"} ->
         <<Token("CONVERT_FLOAT_INT", 0)>>
    [] top_type = "FLOAT" /\ output_type = "SOCK_VECTOR" ->
         <<Token("CONSTANT_FLOAT", 0), Token("CONSTANT_FLOAT", 0)>>
    [] top_type = "VEC" /\ output_type = "SOCK_FLOAT" -> <<Token("OPERATOR_GET_MEMBER_VEC", 2)>>
    [] top_type = "VEC" /\ output_type \in {"SOCK_INT", "SOCK_BOOLEAN"} ->
         <<Token("OPERATOR_GET_MEMBER_VEC", 2), Token("CONVERT_FLOAT_INT", 0)>>
    [] top_type = "VEC" /\ output_type = "SOCK_VECTOR" -> <<>>

\* the last step of a compilation whose type stack holds the kind of the
\* expression
CoercionStep ==
  pc = "create_postfix_program" /\ compile.phase = "final" /\ compile.stack_type # <<>>

\* the step appends the tokens of the pair (kind of the expression, output
\* type) and nothing else
AppendsCoercionTokens ==
  [][CoercionStep =>
       /\ compile'.phase = "ok"
       /\ compile'.output =
            compile.output \o coercion_tokens(last(compile.stack_type), output_type_)]_vars

\* a program compiled in bounds from a scalar expression for a Vector output
\* has, after its last token, exactly three Float cells on its stack, the two
\* on top being 0; and x is the first member of the returned vector
ScalarPaddedToVector ==
  /\ pc = "execute_program" /\ run.i = Len(compile.output) /\ ~compile.corrupt
  /\ output_type_ = "SOCK_VECTOR" /\ last(compile.stack_type) # "VEC"
  => /\ run.top_idx = 2
     /\ \A k \in 1..3 : run.stack[k].kind = "float"
     /\ run.stack[2].bits = 0 /\ run.stack[3].bits = 0

\* x + x for the Vec input, and i + i and f + f for the Int and the Float
\* input, evaluated for each output type in row 0 (v.x = 1, i = 2, f = 5)
CoercedValues ==
  /\ Returned(<<"v", "+", "v">>, "SOCK_FLOAT") /\ index = 0 =>
       run.ret = [type |-> "float", value |-> <<FloatBits(2)>>]
  /\ Returned(<<"v", "+", "v">>, "SOCK_INT") /\ index = 0 =>
       run.ret = [type |-> "int", value |-> <<2>>]
  /\ Returned(<<"i", "+", "i">>, "SOCK_FLOAT") /\ index = 0 =>
       run.ret = [type |-> "float", value |-> <<FloatBits(4)>>]
  /\ Returned(<<"i", "+", "i">>, "SOCK_VECTOR") /\ index = 0 =>
       run.ret = [type |-> "float3", value |-> <<FloatBits(4), 0, 0>>]
  /\ Returned(<<"f", "+", "f">>, "SOCK_INT") /\ index = 0 =>
       run.ret = [type |-> "int", value |-> <<10>>]
  /\ Returned(<<"f", "+", "f">>, "SOCK_VECTOR") /\ index = 0 =>
       run.ret = [type |-> "float3", value |-> <<FloatBits(10), 0, 0>>]

\* C15: for every pair of the kind of the expression and the output type, the
\* end of compilation appends CONVERT_INT_FLOAT for Int to Float,
\* CONVERT_FLOAT_INT for Float to Int or Bool, OPERATOR_GET_MEMBER_VEC 2 (then
\* CONVERT_FLOAT_INT for Int or Bool) for Vec to a scalar, nothing when the
\* kinds agree, and for a scalar to Vector the tokens that leave (x as Float,
\* 0, 0) on the runtime stack.
C15_FinalCoercion == AppendsCoercionTokens /\ [](ScalarPaddedToVector /\ CoercedValues)

\* the coercion of a Vec expression to an Int output has run and the program
\* returned the x of the vector
C15_Witness ==
  /\ Returned(<<"v", "+", "v">>, "SOCK_INT") /\ index = 0 /\ program_valid_
  /\ SubSeq(compile.output, Len(compile.output) - 1, Len(compile.output)) =
       coercion_tokens("VEC", "SOCK_INT")
  /\ run.ret.value = <<2>>

\* every pair of kind and output type reaches the coercion
CoercionReached(top_type, output_type) ==
  /\ compile.phase = "ok" /\ ~compile.corrupt /\ pc = "execute_program"
  /\ compile.stack_type = <<top_type>> /\ output_type_ = output_type

(***************************************************************************)
(* Variable tokens                                                         *)
(***************************************************************************)
VariableTokens == {"VARIABLE_FLOAT", "VARIABLE_INT", "VARIABLE_BOOL", "VARIABLE_VEC"}

\* the token is a variable token for an input that exists, of the variant of
\* the type the input is declared with
names_input(t) ==
  /\ t.value \in 0..(Len(input_names) - 1)
  /\ t.type = variable_token(input_types[t.value + 1])

name_char(c) == c = "_" \/ isalpha(c) \/ isdigit(c)

\* the identifier that ends at read_pos is the name of the input of t, and no
\* character of an identifier comes before or after it
reads_name_of(t, read_pos) ==
  LET name == input_names[t.value + 1]
      start == read_pos - Len(name)
  IN /\ start >= 0
     /\ substr(expression, start, Len(name)) = name
     /\ read_variable_name_size(expression, start) = Len(name)
     /\ start > 0 => ~name_char(expression[start])

\* every variable token of the token stream names an input, by index and by
\* type, and the step that adds it has read the name of that input
VariableTokensNameInputs ==
  /\ [](\A k \in 1..Len(parser.output) :
          parser.output[k].type \in VariableTokens => names_input(parser.output[k]))
  /\ [][\A k \in (Len(parser.output) + 1)..Len(parser'.output) :
          parser'.output[k].type \in VariableTokens =>
            /\ k = Len(parser'.output)
            /\ names_input(parser'.output[k])
            /\ reads_name_of(parser'.output[k], parser'.read_pos)]_vars

\* the identifier the expression starts with
leading_name ==
  substr(expression, skip_white_space(expression, 0),
         read_variable_name_size(expression, skip_white_space(expression, 0)))

\* the expression starts with an identifier that is not the name of an input,
\* not pi or tau, and not followed by a parenthesis
StartsWithUnknownName ==
  /\ leading_name # <<>>
  /\ input_index(input_names, leading_name) = -1
  /\ ~is_special_const(leading_name).is
  /\ find(expression, "(", 0) = -1

UnknownNameFails == pc # "parse" /\ StartsWithUnknownName => ~parser.ret

\* C16: every variable token the parser produces carries the index of a
\* declared input whose name is the identifier read from the source and whose
\* type is the one of the token's variant; an identifier that names no input
\* and is not pi or tau makes the parse fail.
C16_VariableTokens == VariableTokensNameInputs /\ []UnknownNameFails

\* the same for identifiers that std::from_chars does not read as a float
ReadAsFloat == from_chars_float(expression, skip_white_space(expression, 0)).ok

UnknownNameFailsUnlessFloat ==
  pc # "parse" /\ StartsWithUnknownName /\ ~ReadAsFloat => ~parser.ret

UnknownNameReached(name) == pc # "parse" /\ expression = name /\ StartsWithUnknownName

(***************************************************************************)
(* Integer literals                                                        *)
(***************************************************************************)
INT_MAX == 2147483647

\* the number that the decimal digits s write, -1 when it is above INT_MAX
RECURSIVE decimal(_)
decimal(s) ==
  IF s = <<>> THEN 0
  ELSE LET high == decimal(SubSeq(s, 1, Len(s) - 1))
           low == digit_value(s[Len(s)])
       IN IF high = -1 \/ high > INT_MAX \div 10 THEN -1
          ELSE IF high = INT_MAX \div 10 /\ low > INT_MAX % 10 THEN -1
          ELSE 10 * high + low

\* the expression is one integer literal
IsIntLiteral == expression # <<>> /\ \A k \in 1..Len(expression) : isdigit(expression[k])

OverflowingLiteral == IsIntLiteral /\ decimal(expression) = -1

\* C17: an integer literal whose value does not fit in a 32-bit signed int
\* makes the parse fail with an error, and is not accepted as a constant of
\* another kind.
C17_OverflowIsError ==
  pc # "parse" /\ OverflowingLiteral =>
    /\ ~parser.ret
    /\ parser.error_msg_ # ""
    /\ parser.output = <<>>

\* an integer literal that fits is the CONSTANT_INT of its value
FittingLiteralIsInt ==
  pc # "parse" /\ IsIntLiteral /\ decimal(expression) # -1 =>
    parser.ret /\ parser.output = <<Token("CONSTANT_INT", decimal(expression))>>

\* an integer literal that does not fit is accepted as a CONSTANT_FLOAT
OverflowReadAsFloat ==
  pc # "parse" /\ OverflowingLiteral =>
    /\ parser.ret
    /\ Len(parser.output) = 1 /\ parser.output[1].type = "CONSTANT_FLOAT"

OverflowReached == pc = "returned" /\ OverflowingLiteral /\ program_valid_

(***************************************************************************)
(* Parentheses and commas                                                  *)
(***************************************************************************)
SpecialTokens == {"LEFT_PAREN", "RIGHT_PAREN", "COMMA", "NONE"}

has_token(tokens, types) == \E k \in 1..Len(tokens) : tokens[k].type \in types

\* C18: a successfully compiled program holds no LEFT_PAREN, RIGHT_PAREN,
\* COMMA or NONE token: the compiler consumes every parenthesis and comma of
\* the infix tokens and copies none of them to its output.
C18_NoSpecialTokens ==
  /\ program_valid_ => ~has_token(compile.output, SpecialTokens)
  /\ compile.phase = "ok" => ~has_token(compile.operator_stack, SpecialTokens)

\* a program compiled from infix tokens with parentheses and a comma is being
\* executed
C18_Witness ==
  /\ program_valid_ /\ pc = "execute_program" /\ run.i > 0
  /\ has_token(parser.output, {"LEFT_PAREN"})
  /\ has_token(parser.output, {"RIGHT_PAREN"})
  /\ has_token(parser.output, {"COMMA"})
  /\ Len(compile.output) < Len(parser.output)

\* the interpreter never reaches the cases of the switch for these tokens
NoSpecialTokenExecuted ==
  pc = "execute_program" /\ run.i < Len(compile.output) => next_token.type \notin SpecialTokens

(***************************************************************************)
(* The end of create_program                                               *)
(***************************************************************************)
\* create_program has returned
Created == pc \in {"created", "execute_program", "returned"}

\* create_program returned true: the parse succeeded, every lowering found a
\* variant and the cell count stayed within MAX_STACK
CompiledValid ==
  /\ program_valid_
  /\ parser.ret /\ compile.phase = "ok"
  /\ compile.stack_size <= MAX_STACK
  /\ compile.output # <<>>

\* create_program returned false and left a message
CompileFailed ==
  /\ ~program_valid_
  /\ ~parser.ret \/ compile.phase = "failed"
  /\ error_msg # <<>> /\ error_msg[1] # ""

\* execute_program returned from a program that is not valid without running
\* a token
InvalidRunsNoToken ==
  pc = "returned" /\ ~program_valid_ =>
    /\ run.i = 0 /\ run.top_idx = -1 /\ run.stack = <<>>
    /\ run.ret = [type |-> "int", value |-> <<0>>]

\* the program holds the lists of names and types while create_program runs
\* and not after it
ListsReleased ==
  /\ pc \in {"parse", "create_postfix_program"} =>
       input_names_ = pointer_to(input_names) /\ input_types_ = pointer_to(input_types)
  /\ Created => input_names_ = nullptr /\ input_types_ = nullptr

\* C19: create_program ends in one of two states, valid after a successful
\* parse and compilation, or not valid with an error message; and
\* execute_program of a program that is not valid executes no token.  At
\* each end the program has let go of the lists of names and types.
C19_TwoEndStates ==
  /\ pc \notin {"parse", "create_postfix_program"} =>
       (CompiledValid \/ CompileFailed) /\ input_names_ = nullptr /\ input_types_ = nullptr
  /\ InvalidRunsNoToken

\* the expression has a character that is not white space
NotBlank == \E n \in 1..Len(expression) : ~isspace(expression[n])

\* the same for an expression that is not blank, in a compilation that does
\* not stop at a read below the type stack
TwoEndStatesUnlessBlankOrAborted ==
  /\ Created /\ NotBlank => CompiledValid \/ CompileFailed
  /\ InvalidRunsNoToken
  /\ ListsReleased

AbortedReached == pc = "aborted"
BlankFailureReached == Created /\ ~NotBlank /\ ~program_valid_ /\ error_msg[1] = ""
InvalidReturnReached == pc = "returned" /\ ~program_valid_ /\ compile.phase = "failed"

(***************************************************************************)
(* A unary operator as right operand                                       *)
(***************************************************************************)
UnaryVariants ==
  {"OPERATOR_UNARY_MINUS", "OPERATOR_UNARY_MINUS_INT", "OPERATOR_UNARY_MINUS_VEC",
   "OPERATOR_UNARY_NOT"}

\* a op u b: a binary operator whose right operand is a unary operator
\* applied to an input
UnaryRightOperand ==
  \E a \in Kinds3, op \in BinaryOps, u \in UnaryOps, b \in Kinds3 :
    expression = a \o op \o u \o b

\* the step just taken tried to lower a binary operator
LoweredBinary ==
  /\ compile.lowered.op # "NONE" /\ compile.lowered.arity = 2
  /\ is_operator(Token(compile.lowered.op, 0))

\* the program applies the unary operator before the binary one
unary_first(program) ==
  \E k \in 1..Len(program) :
    /\ program[k].type \in UnaryVariants
    /\ \A j \in 1..k : num_args(program[j]) # 2
    /\ \E j \in (k + 1)..Len(program) :
         num_args(program[j]) = 2 /\ is_operator(program[j])

\* f ^ -f
PowerOfNegated == <<"f", "^", "-", "f">>

\* C20: a unary operator that is the right operand of a binary operator is
\* applied before the binary operator is lowered, for every binary operator
\* and for ^ as well: f ^ -f compiles to f, f, OPERATOR_UNARY_MINUS,
\* OPERATOR_POWER, and no binary operator is lowered with fewer than two
\* entries on the type stack.
C20_UnaryBeforeBinary ==
  /\ LoweredBinary => compile.lowered.depth >= 2
  /\ UnaryRightOperand /\ compile.phase = "ok" => unary_first(compile.output)
  /\ expression = PowerOfNegated /\ compile.phase = "ok" =>
       compile.output = <<Token("VARIABLE_FLOAT", 0), Token("VARIABLE_FLOAT", 0),
                          Token("OPERATOR_UNARY_MINUS", 0), Token("OPERATOR_POWER", 0)>>

\* the same for every binary operator but ^
UnaryBeforeBinaryButPower ==
  /\ LoweredBinary /\ compile.lowered.op # "OPERATOR_POWER" => compile.lowered.depth >= 2
  /\ /\ UnaryRightOperand /\ compile.phase = "ok"
     /\ ~has_token(parser.output, {"OPERATOR_POWER"})
     => unary_first(compile.output)

\* f ^ -f compiled to a program that applies ^ first
PowerLoweredFirst ==
  /\ expression = PowerOfNegated /\ program_valid_
  /\ compile.output[2].type = "OPERATOR_POWER"

UnaryRightOperandReached(op) ==
  UnaryRightOperand /\ compile.phase = "ok" /\ has_token(parser.output, {op})

(***************************************************************************)
(* Conversions in place                                                    *)
(***************************************************************************)
\* the cells of the arguments after argument j of a lowering with the
\* argument kinds args
RECURSIVE cells_after(_, _)
cells_after(args, j) ==
  IF j >= Len(args) THEN 0 ELSE stack_space(args[j + 1]) + cells_after(args, j + 1)

\* the conversions a lowering is to add for the kinds read it found and the
\* kinds args of the variant: one CONVERT_INT_FLOAT for each Int argument
\* that is a Float in args, from the first argument on
RECURSIVE widenings(_, _, _)
widenings(read, args, j) ==
  IF j > Len(args) THEN <<>>
  ELSE (IF read[j] = "INT" /\ args[j] = "FLOAT"
        THEN <<Token("CONVERT_INT_FLOAT", cells_after(args, j))>> ELSE <<>>)
       \o widenings(read, args, j + 1)

\* the lowering just made added the conversions of its Int arguments and no
\* other token
LoweringAddsWidenings ==
  Lowered => compile.lowered.added = widenings(compile.lowered.read, compile.lowered.args, 1)

\* the call is about to execute a CONVERT_INT_FLOAT
ConversionNext ==
  /\ pc = "execute_program" /\ run.i < Len(compile.output)
  /\ next_token.type = "CONVERT_INT_FLOAT"

\* the step converts the Int cell at top_idx - offset to Float and changes
\* nothing else of the stack
ConvertsInPlace(offset) ==
  /\ run.top_idx - offset >= 0
  /\ cell_at(run, run.top_idx - offset).kind = "int"
  /\ run'.top_idx = run.top_idx
  /\ Len(run'.stack) = Len(run.stack)
  /\ run'.under = run.under
  /\ \A idx \in 0..(Len(run.stack) - 1) :
       cell_at(run', idx) =
         IF idx = run.top_idx - offset
         THEN [bits |-> int_to_float(cell_at(run, idx).bits), kind |-> "float"]
         ELSE cell_at(run, idx)

\* C21: every CONVERT_INT_FLOAT of a lowering has as offset the number of
\* cells of the arguments after the Int argument it widens, and executing it
\* rewrites the Int cell at top_idx - offset only, top_idx and every other
\* cell staying as they were.
C21_ConversionInPlace ==
  /\ []LoweringAddsWidenings
  /\ [][ConversionNext => ConvertsInPlace(next_token.value)]_vars

\* the same for the programs whose compilation stayed inside the type stack
ConversionInPlaceWhenCompiledInBounds ==
  /\ [](Lowered /\ compile.lowered.depth >= compile.lowered.arity =>
          compile.lowered.added =
            widenings(compile.lowered.read, compile.lowered.args, 1))
  /\ [][ConversionNext /\ ~compile.corrupt => ConvertsInPlace(next_token.value)]_vars

\* a conversion with that offset is about to be executed
ConversionReached(offset) ==
  ConversionNext /\ ~compile.corrupt /\ next_token.value = offset

\* a conversion is about to be executed on a cell below the stack
ConversionBelowStack == ConversionNext /\ run.top_idx - next_token.value < 0

(***************************************************************************)
(* Exact matches                                                           *)
(***************************************************************************)
\* the signature of variant is the kinds read
matches_exactly(read, variant) ==
  \A k \in 1..Len(read) : arg_type(variant, k) = read[k]

\* the step lowers the operator on top of the operator stack, and a variant
\* of it has the kinds of the arguments as its signature
LowersExactMatch ==
  /\ pc = "create_postfix_program"
  /\ compile'.lowered.op # "NONE"
  /\ \E v \in variants(compile'.lowered.op) : matches_exactly(compile'.lowered.read, v)

\* the step appends to the program the variant with that signature, with the
\* immediate of the operator lowered, and nothing else
EmitsExactVariant ==
  /\ compile'.lowered.specialized_op \in variants(compile'.lowered.op)
  /\ matches_exactly(compile'.lowered.read, compile'.lowered.specialized_op)
  /\ compile'.lowered.added = <<>>
  /\ compile'.lowered.args = compile'.lowered.read
  /\ compile'.lowered.op = last(compile.operator_stack).type
  /\ compile'.output =
       Append(compile.output,
              Token(compile'.lowered.specialized_op, last(compile.operator_stack).value))

\* i + i stays Int and v * f is the product of a vector and a float
ExactExamples ==
  /\ Returned(<<"i", "+", "i">>, "SOCK_INT") =>
       compile.output = <<Token("VARIABLE_INT", 1), Token("VARIABLE_INT", 1),
                          Token("OPERATOR_PLUS_INT", 0)>>
  /\ Returned(<<"v", "*", "f">>, "SOCK_VECTOR") =>
       compile.output = <<Token("VARIABLE_VEC", 3), Token("VARIABLE_FLOAT", 0),
                          Token("OPERATOR_MULTIPLY_VEC_FLOAT", 0)>>
  /\ Returned(<<"v", ".", "y">>, "SOCK_FLOAT") =>
       compile.output = <<Token("VARIABLE_VEC", 3), Token("OPERATOR_GET_MEMBER_VEC", 1)>>

\* C22: when the kinds of the arguments are the signature of the operator
\* lowered or of a variant in its overload set, the lowering emits that
\* variant with the immediate of the original token and adds no conversion
\* (i + i gives OPERATOR_PLUS_INT, v * f gives OPERATOR_MULTIPLY_VEC_FLOAT).
C22_ExactMatchPreferred ==
  [][LowersExactMatch => EmitsExactVariant]_vars /\ []ExactExamples

\* i + i has been compiled and has returned an Int
C22_Witness ==
  /\ Returned(<<"i", "+", "i">>, "SOCK_INT") /\ program_valid_ /\ index = 0
  /\ compile.output[3] = Token("OPERATOR_PLUS_INT", 0)
  /\ run.ret = [type |-> "int", value |-> <<4>>]

\* an exact match was lowered to a variant of the overload set, with the
\* immediate imm
ExactMatchReached(op, variant, imm) ==
  /\ compile.lowered.op = op /\ compile.lowered.specialized_op = variant
  /\ compile.lowered.added = <<>>
  /\ last(compile.output) = Token(variant, imm)

(***************************************************************************)
(* Parentheses, commas and calls in the compiler                           *)
(***************************************************************************)
\* the infix token the compiler is at
infix_token == parser.output[compile.n + 1]

\* the compiler is in the loop of the RIGHT_PAREN / COMMA branch
AtParenOrComma == pc = "create_postfix_program" /\ compile.phase = "pop_paren"

\* the step ends the RIGHT_PAREN / COMMA branch
EndsParenOrComma == AtParenOrComma /\ compile'.phase \in {"loop", "rest", "failed"}
                    /\ compile'.lowered.op = "NONE"

\* the operator stack holds a LEFT_PAREN whenever a RIGHT_PAREN or a COMMA is
\* processed, and none when the infix tokens have all been processed
ParenOnStack ==
  /\ AtParenOrComma => has_token(compile.operator_stack, {"LEFT_PAREN"})
  /\ compile.phase \in {"rest", "final", "ok"} =>
       ~has_token(compile.operator_stack, {"LEFT_PAREN"})

\* a COMMA leaves the LEFT_PAREN it stopped at, a RIGHT_PAREN removes it and
\* nothing else
ParenRemovedByRightParen ==
  [][EndsParenOrComma =>
       /\ last(compile.operator_stack).type = "LEFT_PAREN"
       /\ compile'.operator_stack =
            IF infix_token.type = "RIGHT_PAREN" THEN discard_last(compile.operator_stack)
            ELSE compile.operator_stack]_vars

operand_tokens(tokens) == SelectSeq(tokens, is_operand)

\* t is a function of the expression language, not an inserted conversion
is_function(t) == from(token_info_table, t.type, FIRST_FUNCTION) /\ NotConversion(t)

\* the index of the last token of program that is a function, 0 when there
\* is none
last_function(program) ==
  IF \A k \in 1..Len(program) : ~is_function(program[k]) THEN 0
  ELSE CHOOSE k \in 1..Len(program) :
         is_function(program[k]) /\ \A j \in (k + 1)..Len(program) : ~is_function(program[j])

\* the expression is one call f(e1, ..., en)
IsCall == parser.output # <<>> /\ is_function(parser.output[1])

\* the program of a call has the operands of e1, ..., en in the order of the
\* source, then a variant of f, and after it only tokens of the output
\* coercion
call_in_order(infix, program) ==
  LET operands == operand_tokens(infix)
      f == last_function(program)
  IN /\ f > Len(operands)
     /\ program[f].type \in variants(infix[1].type)
     /\ operand_tokens(SubSeq(program, 1, f)) = operands
     /\ \A k \in (f + 1)..Len(program) : ~is_operator_or_function(program[k])
                                          \/ program[k] = Token("OPERATOR_GET_MEMBER_VEC", 2)
                                          \/ ~NotConversion(program[k])

CallInOrder == IsCall /\ compile.phase = "ok" => call_in_order(parser.output, compile.output)

\* C23: whenever the compiler processes a RIGHT_PAREN or a COMMA the operator
\* stack holds a LEFT_PAREN; the COMMA leaves it and the RIGHT_PAREN removes
\* exactly that one; no LEFT_PAREN is on the operator stack after the last
\* infix token; and the program of a call f(e1, ..., en) is the code of e1,
\* ..., en in source order followed by the variant of f.
C23_ParensAndCalls == []ParenOnStack /\ ParenRemovedByRightParen /\ []CallInOrder

\* a call with three arguments, one of them an expression with an operator,
\* has been compiled
C23_Witness ==
  /\ expression = IfGreater /\ compile.phase = "ok"
  /\ call_in_order(parser.output, compile.output)
  /\ Len(operand_tokens(parser.output)) = 4

CommaReached == AtParenOrComma /\ infix_token.type = "COMMA" /\ Len(compile.operator_stack) > 2

(***************************************************************************)
(* The precedence of member access                                         *)
(***************************************************************************)
GetMember == Token("OPERATOR_GET_MEMBER_VEC", 0)

\* the rows of token_info for operators of two arguments
BinaryRows ==
  {k \in 1..NUM : /\ is_operator(Token(token_info_table[k].type, 0))
                  /\ token_info_table[k].num_args = 2}

\* OPERATOR_GET_MEMBER_VEC has a higher precedence than every binary operator
MemberAboveBinary ==
  \A k \in BinaryRows : precedence(GetMember) > token_info_table[k].precedence

\* ... and the precedence of unary minus and of the functions
MemberEqualsUnaryAndCall ==
  /\ precedence(GetMember) = precedence(Token("OPERATOR_UNARY_MINUS", 0))
  /\ precedence(GetMember) = precedence(Token("FUNCTION_SQUARE_ROOT", 0))

\* f op v.x selects the member before it applies op
MemberBeforeBinary ==
  expression \in MemberOperands /\ compile.phase = "ok" =>
    /\ SubSeq(compile.output, 1, 3) =
         <<Token("VARIABLE_FLOAT", 0), Token("VARIABLE_VEC", 3),
           Token("OPERATOR_GET_MEMBER_VEC", 2)>>
    /\ compile.output[4].type \in variants(parser.output[2].type)
    /\ num_args(compile.output[4]) = 2

NegatedMemberIsMinusX ==
  /\ program_valid_
  /\ compile.output = <<Token("VARIABLE_VEC", 3), Token("OPERATOR_GET_MEMBER_VEC", 2),
                        Token("OPERATOR_UNARY_MINUS", 0)>>
  /\ run.ret = [type |-> "float", value |-> <<fneg(input_value("v")[1])>>]

\* C24: member access has the precedence of unary minus and of function
\* calls, above every binary operator: `a * v.x` selects the member before it
\* multiplies, and `-v.x` evaluates to the selected component negated.
C24_MemberPrecedence ==
  /\ MemberAboveBinary
  /\ MemberBeforeBinary
  /\ Returned(NegatedMember, "SOCK_FLOAT") => NegatedMemberIsMinusX
  /\ MemberEqualsUnaryAndCall

\* what holds: member access has the precedence of the functions, above unary
\* minus and every binary operator, and `-v.x` is the component negated when
\* the caller of parse_operand_or_unary reads true where it flows off its end
MemberPrecedenceWhenParsed ==
  /\ MemberAboveBinary
  /\ MemberBeforeBinary
  /\ Returned(NegatedMember, "SOCK_FLOAT") /\ parser.ret => NegatedMemberIsMinusX
  /\ precedence(GetMember) = precedence(Token("FUNCTION_SQUARE_ROOT", 0))
  /\ precedence(GetMember) > precedence(Token("OPERATOR_UNARY_MINUS", 0))

NegatedMemberReached ==
  Returned(NegatedMember, "SOCK_FLOAT") /\ NegatedMemberIsMinusX /\ index = 1

NegatedMemberNotParsed ==
  Returned(NegatedMember, "SOCK_FLOAT") /\ ~program_valid_ /\ ~parser.ret

TimesMemberReached ==
  /\ Returned(<<"f", "*", "v", ".", "x">>, "SOCK_FLOAT") /\ program_valid_ /\ index = 0
  /\ compile.output[4] = Token("OPERATOR_MULTIPLY", 0)
  /\ run.ret = [type |-> "float", value |-> <<FloatBits(5)>>]

(***************************************************************************)
(* The boolean operators                                                   *)
(***************************************************************************)
BooleanOps == {"OPERATOR_AND", "OPERATOR_OR"}

\* the rows of token_info for the comparison operators
ComparisonRows ==
  {k \in 1..NUM : between(token_info_table, token_info_table[k].type,
                          "OPERATOR_EQUAL", FIRST_BOOLEAN_OPERATOR)}

\* && and || have a lower precedence than every comparison operator
BooleanBelowComparisons ==
  \A k \in ComparisonRows, op \in BooleanOps :
    precedence(Token(op, 0)) < token_info_table[k].precedence

\* the infix tokens are  o1 c1 o2 B o3 c2 o4  with B a boolean operator
IsBooleanOfComparisons ==
  Len(parser.output) = 7 /\ parser.output[4].type \in BooleanOps

\* the program of  o1 c1 o2 B o3 c2 o4  without its conversions: the code of
\* both comparisons, then B
boolean_last(infix, program) ==
  /\ Len(program) = 7
  /\ <<program[1], program[2], program[4], program[5]>> =
       <<infix[1], infix[3], infix[5], infix[7]>>
  /\ program[3].type \in variants(infix[2].type)
  /\ program[6].type \in variants(infix[6].type)
  /\ program[7] = infix[4]

OperandsBeforeBoolean ==
  IsBooleanOfComparisons /\ compile.phase = "ok" =>
    boolean_last(parser.output, SelectSeq(compile.output, NotConversion))

\* the call is about to execute && or ||
BooleanNext ==
  /\ pc = "execute_program" /\ run.i < Len(compile.output)
  /\ next_token.type \in BooleanOps

\* the step replaced the two cells on top by the Int 1 or 0 that && or ||
\* gives for them
PushesTruthValue ==
  /\ run'.i = run.i + 1
  /\ run'.top_idx = run.top_idx - 1
  /\ top_cell(run') =
       [bits |-> icmp(IF next_token.type = "OPERATOR_AND" THEN "&&" ELSE "||",
                      top_cells(run, 2)[1].bits, top_cells(run, 2)[2].bits),
        kind |-> "int"]
  /\ top_cell(run').bits \in {0, 1}

\* a call executes the tokens of the program one after the other, and returns
\* after the last one
ExecutesEveryToken ==
  pc = "execute_program" =>
    \/ pc' = pc /\ run.i < Len(compile.output) /\ run'.i = run.i + 1
    \/ pc' = "returned" /\ run.i = Len(compile.output)

\* C25: && and || have a lower precedence than every comparison operator and
\* are strict: the program holds the code of both operands before the
\* OPERATOR_AND / OPERATOR_OR token, every token of the program is executed,
\* and the token pushes the Int 0 or 1.
C25_StrictBooleans ==
  /\ []BooleanBelowComparisons
  /\ []OperandsBeforeBoolean
  /\ [][ExecutesEveryToken]_vars
  /\ [][BooleanNext => PushesTruthValue]_vars

\* i < 6 || f >= x has returned true
C25_Witness ==
  /\ Returned(<<"i", "<", "6", "|", "|", "f", ">", "=", "x">>, "SOCK_FLOAT") /\ index = 0
  /\ boolean_last(parser.output, SelectSeq(compile.output, NotConversion))
  /\ run.ret = [type |-> "float", value |-> <<FloatBits(1)>>]

BooleanReached(op, value) ==
  /\ pc = "execute_program" /\ run.i > 0
  /\ compile.output[run.i].type = op
  /\ top_cell(run) = [bits |-> value, kind |-> "int"]

(***************************************************************************)
(* The spelling of a function and the parenthesis after it                 *)
(***************************************************************************)
Parsed == pc # "parse"

SinOfF ==
  <<Token("FUNCTION_SINE", 0), Token("LEFT_PAREN", 0), Token("VARIABLE_FLOAT", 0),
    Token("RIGHT_PAREN", 0)>>

ParsedAsCall == parser.ret /\ parser.output = SinOfF

\* no token of the parse is a function
NoFunctionToken ==
  \A k \in 1..Len(parser.output) : ~is_function(parser.output[k])

\* C26: the spelling of a function followed by `(`, with or without whitespace
\* between them, is parsed as a call (`sin(f)` and `sin (f)`), and it is not a
\* function when no `(` follows it.
C26_FunctionNeedsParen ==
  /\ Parsed /\ expression \in {SinCall, SinSpaceCall, SpaceSinCall} => ParsedAsCall
  /\ Parsed /\ expression \in SinAlone => NoFunctionToken

\* what holds: the spelling directly followed by `(` is a call when the parse
\* survives the end of parse_function, with whitespace before the `(` it is
\* read as the name of an input, and without a `(` it is no function
FunctionNeedsAdjacentParen ==
  /\ Parsed /\ expression \in {SinCall, SpaceSinCall} /\ parser.ret => ParsedAsCall
  /\ Parsed /\ expression = SinSpaceCall =>
       ~parser.ret /\ NoFunctionToken /\ ~program_valid_
  /\ Parsed /\ expression \in SinAlone => NoFunctionToken /\ ~parser.ret

SinSpaceCallRejected ==
  /\ expression = SinSpaceCall /\ pc = "returned" /\ ~program_valid_
  /\ parser.output = <<>>

SinCallParsed(source) == expression = source /\ Parsed /\ ParsedAsCall /\ program_valid_

(***************************************************************************)
(* The number of arguments of a call                                       *)
(***************************************************************************)
\* the arguments of the call whose LEFT_PAREN is before tokens[j], counted
\* from tokens[j] on: depth is the number of parentheses open, commas the
\* number of COMMA seen at depth 1
RECURSIVE count_args(_, _, _, _)
count_args(tokens, j, depth, commas) ==
  IF j > Len(tokens) THEN -1
  ELSE IF tokens[j].type = "RIGHT_PAREN"
  THEN IF depth = 1 THEN commas + 1 ELSE count_args(tokens, j + 1, depth - 1, commas)
  ELSE IF tokens[j].type = "LEFT_PAREN" THEN count_args(tokens, j + 1, depth + 1, commas)
  ELSE count_args(tokens, j + 1, depth,
                  IF tokens[j].type = "COMMA" /\ depth = 1 THEN commas + 1 ELSE commas)

\* the number of argument expressions of the call of tokens[k]
call_args(tokens, k) ==
  IF k + 2 > Len(tokens) \/ tokens[k + 1].type # "LEFT_PAREN" THEN -1
  ELSE IF tokens[k + 2].type = "RIGHT_PAREN" THEN 0
  ELSE count_args(tokens, k + 2, 1, 0)

\* every function token of the parse has as many arguments as its num_args
CallsHaveTheirArity ==
  \A k \in 1..Len(parser.output) :
    is_function(parser.output[k]) =>
      call_args(parser.output, k) = num_args(parser.output[k])

\* C27: the parser accepts a call only when the number of its argument
\* expressions is the num_args of the function; a call with fewer or more
\* arguments fails the parse, and the compiler receives no function token with
\* another number of arguments.
C27_CallArity ==
  /\ Parsed /\ parser.ret => CallsHaveTheirArity
  /\ Parsed /\ expression \in ArityErrors => ~parser.ret
  /\ pc = "returned" /\ ~parser.ret => ~program_valid_ /\ compile.n = 0 /\ compile.output = <<>>

\* max(f) has been rejected after its function token had been read
C27_Witness ==
  /\ expression = <<"m", "a", "x", "(", "f", ")">> /\ pc = "returned"
  /\ ~parser.ret /\ ~program_valid_
  /\ parser.output[1] = Token("FUNCTION_MAX", 0)
  /\ ~CallsHaveTheirArity

CallOfArityReached(n) ==
  /\ pc = "returned" /\ program_valid_ /\ is_function(parser.output[1])
  /\ num_args(parser.output[1]) = n /\ call_args(parser.output, 1) = n

TooManyArgumentsRejected ==
  /\ expression = <<"s", "i", "n", "(", "f", ",", "f", ")">> /\ pc = "returned" /\ ~parser.ret

(***************************************************************************)
(* Associativity                                                           *)
(***************************************************************************)
is_binary(t) == is_operator(t) /\ num_args(t) = 2

\* the infix tokens are  a op1 b op2 c  with op1 and op2 binary operators of
\* equal precedence
IsChain ==
  /\ Len(parser.output) = 5
  /\ is_operand(parser.output[1]) /\ is_operand(parser.output[3])
  /\ is_operand(parser.output[5])
  /\ is_binary(parser.output[2]) /\ is_binary(parser.output[4])
  /\ precedence(parser.output[2]) = precedence(parser.output[4])

\* program, without its conversions, is  a b op1 c op2, and after it the
\* constants that pad a scalar to a vector output
left_to_right(infix, program) ==
  /\ Len(program) >= 5
  /\ \A k \in 6..Len(program) : program[k] = Token("CONSTANT_FLOAT", 0)
  /\ <<program[1], program[2], program[4]>> = <<infix[1], infix[3], infix[5]>>
  /\ program[3].type \in variants(infix[2].type)
  /\ program[5].type \in variants(infix[4].type)

\* C28: the binary operators are left-associative: for op1 and op2 of equal
\* precedence `a op1 b op2 c` compiles to a, b, op1, c, op2, so that a - b - c
\* is (a - b) - c, a / b * c is (a / b) * c and a ^ b ^ c is (a ^ b) ^ c.
C28_LeftAssociative ==
  /\ IsChain /\ compile.phase = "ok" =>
       left_to_right(parser.output, SelectSeq(compile.output, NotConversion))
  /\ Returned(<<"7", "-", "3", "-", "2">>, "SOCK_INT") =>
       run.ret = [type |-> "int", value |-> <<2>>]
  /\ Returned(<<"7", "/", "3", "*", "2">>, "SOCK_INT") =>
       run.ret = [type |-> "int", value |-> <<4>>]
  /\ Returned(<<"2", "^", "3", "^", "2">>, "SOCK_INT") =>
       run.ret = [type |-> "int", value |-> <<64>>]

\* 7 - 3 - 2 has returned 2
C28_Witness ==
  /\ Returned(<<"7", "-", "3", "-", "2">>, "SOCK_INT") /\ IsChain
  /\ compile.output = <<Token("CONSTANT_INT", 7), Token("CONSTANT_INT", 3),
                        Token("OPERATOR_MINUS_INT", 0), Token("CONSTANT_INT", 2),
                        Token("OPERATOR_MINUS_INT", 0)>>
  /\ run.ret = [type |-> "int", value |-> <<2>>]

ChainReached(op1, op2) ==
  /\ IsChain /\ program_valid_ /\ pc = "returned"
  /\ parser.output[2].type = op1 /\ parser.output[4].type = op2

(***************************************************************************)
(* A minus before a literal                                                *)
(***************************************************************************)
MinusThreeSquared == <<"-", "3", "^", "2">>

\* the parse of -3^2 starts with a unary minus, as the parse of -x^2 does
MinusBeforeLiteralIsUnary ==
  expression = MinusThreeSquared /\ Parsed =>
    /\ parser.ret
    /\ token_types(parser.output) =
         <<"OPERATOR_UNARY_MINUS", "CONSTANT_INT", "OPERATOR_POWER", "CONSTANT_INT">>

\* C29: a minus in operand position is a unary minus before a literal as it
\* is before a variable, applied with the same precedence: `-3^2` evaluates to
\* the value of `-x^2` with x = 3, which is -9.
C29_MinusBeforeLiteral ==
  /\ MinusBeforeLiteralIsUnary
  /\ Returned(MinusThreeSquared, "SOCK_FLOAT") =>
       program_valid_ /\ run.ret = [type |-> "float", value |-> <<fneg(FloatBits(9))>>]
  /\ Returned(MinusXSquared, "SOCK_FLOAT") /\ index = 0 =>
       program_valid_ /\ run.ret = [type |-> "float", value |-> <<fneg(FloatBits(9))>>]

\* what holds: the minus is part of the literal, which is squared
MinusIsPartOfLiteral ==
  /\ expression = MinusThreeSquared /\ Parsed =>
       /\ parser.ret
       /\ parser.output = <<Token("CONSTANT_INT", -3), Token("OPERATOR_POWER", 0),
                            Token("CONSTANT_INT", 2)>>
  /\ Returned(MinusThreeSquared, "SOCK_FLOAT") =>
       program_valid_ /\ run.ret = [type |-> "float", value |-> <<FloatBits(9)>>]
  /\ Returned(MinusXSquared, "SOCK_FLOAT") /\ index = 0 /\ parser.ret =>
       program_valid_ /\ run.ret = [type |-> "float", value |-> <<fneg(FloatBits(9))>>]

MinusThreeSquaredIsNine ==
  /\ Returned(MinusThreeSquared, "SOCK_FLOAT") /\ program_valid_
  /\ run.ret = [type |-> "float", value |-> <<FloatBits(9)>>]

(***************************************************************************)
(* The unique name of an added item                                        *)
(***************************************************************************)
Renaming == unique_name.at \in {"next_character", "next_number", "return", "done"}
                /\ unique_name.base_name # <<>>

IsLower(c) == c >= LowerA /\ c <= LowerZ
IsUpper(c) == c >= UpperA /\ c <= UpperZ

\* the letters that the loop over the characters can come to from first_char:
\* the lower-case ones from a lower-case letter and from the characters
\* between the alphabets, the upper-case ones from every other character
candidate_letters(first_char) ==
  {c \in 0..(CharRange - 1) :
     /\ c # first_char
     /\ IF IsLower(first_char) \/ (first_char > UpperZ /\ first_char < LowerA)
        THEN IsLower(c) ELSE IsUpper(c)}

\* get_new_unique_name returns
UniqueNameReturns == <>(unique_name.at = "done")

\* the name returned for a base name of one character is the name of no item
\* when a candidate letter is unused
ReturnsUnusedLetter ==
  /\ unique_name.at = "return" /\ strlen(unique_name.base_name) = 1
  /\ \E c \in candidate_letters(unique_name.first_char) : is_unique_name(socket_items, <<c>>)
  => is_unique_name(socket_items, unique_name.new_name)

\* C30: get_new_unique_name terminates for every base name and every set of
\* item names, and for a base name of one character it returns a name that
\* no item has whenever a candidate letter is unused.
C30_UniqueNameTerminates == UniqueNameReturns /\ []ReturnsUnusedLetter

\* the loop over the characters is back at a character it has tried, with
\* every name it tries taken
LoopsForEver ==
  /\ unique_name.at = "next_character"
  /\ unique_name.new_char = UpperZ
  /\ \A c \in UpperA..UpperZ : ~is_unique_name(socket_items, <<c>>)
  /\ ~IsUpper(unique_name.first_char)

\* the numbered names are bounded by MaxNumber
NumberedNameReturns ==
  (unique_name.at = "next_number") ~> (unique_name.at = "done")

\* a letter base name returns within its alphabet
LetterNameReturns ==
  (unique_name.at = "next_character"
     /\ (IsLower(unique_name.first_char) \/ IsUpper(unique_name.first_char)))
  ~> (unique_name.at = "done")

UnusedLetterReturned ==
  /\ unique_name.at = "return" /\ unique_name.base_name = Name(<<"a">>)
  /\ unique_name.new_name = Name(<<"d">>)

NumberedNameReturned(new_name) ==
  unique_name.at = "done" /\ socket_items[unique_name.item_index + 1] = Name(new_name)
====
